---- MODULE Spec2Model ----
(***************************************************************************)
(* Request handlers (tools) of the Shape MCP server.  Every tool is an     *)
(* async function: it suspends only at its awaits, so one action models    *)
(* the code between two awaits.  The upstream (chain RPC, hosted NFT API,  *)
(* cache store) is the environment `env`, fixed for the whole behaviour:   *)
(* it says what every read answers and which reads fail.                   *)
(***************************************************************************)
EXTENDS Integers, Sequences, FiniteSets, TLC

VARIABLES
    tool,          \* the handler the request is dispatched to
    pc,            \* position of the handler (the await it is suspended at)
    env,           \* upstream state: answers and failures of every read
    input,         \* the validated request parameters
    clock,         \* wall clock read by new Date()
    run,           \* number of the invocation (1 = first, 2 = repeated)
    response,      \* value the handler returned
    prevResponse,  \* response of the previous invocation with the same input
    calls,         \* upstream requests sent by the current invocation
    cr,            \* locals of getShapeCreatorAnalytics (gasback)
    tp,            \* locals of getTopShapeCreators (either version)
    co,            \* locals of getCollectionAnalytics (nft and cached)
    cs,            \* locals of getChainStatus
    cache,         \* the external cache store: key -> serialized response
    mw             \* the middleware: the limiter's store and the requests in flight

vars == <<tool, pc, env, input, clock, run, response, prevResponse, calls,
          cr, tp, co, cs, cache, mw>>

\* ------------------------------------------------------------------------
\* Bounds of the model
\* ------------------------------------------------------------------------
MaxOwned == 3        \* tokens getOwnedTokens returns at most
MaxRuns == 2         \* invocations with the same input
MaxSupply == 101     \* largest totalSupply of the gasback contract
MaxMedals == 2       \* medals getStackMedals returns at most
MaxNfts == 6         \* NFTs getNftsForContract returns at most
MaxOverLimit == 2    \* requests the busy IP sends beyond the limit, per window
MaxQuiet == 2        \* requests the quiet IP sends per window
MaxInFlight == 2     \* requests the server handles at the same time

\* ------------------------------------------------------------------------
\* Unbounded integers (bigint) and IEEE doubles holding integers.
\* A wei amount v is [hi, lo] with v = hi * 10^9 + lo, 0 <= lo < 10^9.
\* ------------------------------------------------------------------------
BigBase == 10^9

Big(h, l) == [hi |-> h, lo |-> l]

BigZero == Big(0, 0)

BigAdd(x, y) ==
    LET l == x.lo + y.lo
    IN  IF l >= BigBase THEN Big(x.hi + y.hi + 1, l - BigBase)
                        ELSE Big(x.hi + y.hi, l)

BigLt(x, y) == x.hi < y.hi \/ (x.hi = y.hi /\ x.lo < y.lo)

BigLe(x, y) == x = y \/ BigLt(x, y)

\* x - y for y <= x
BigSub(x, y) ==
    IF x.lo >= y.lo THEN Big(x.hi - y.hi, x.lo - y.lo)
                    ELSE Big(x.hi - y.hi - 1, x.lo + BigBase - y.lo)

\* a * b as a bigint, for machine integers 0 <= a, b < 10^9 (long
\* multiplication on the base-1000 digits)
IntTimes(a, b) ==
    LET a0 == a % 1000
        a1 == (a \div 1000) % 1000
        a2 == a \div 1000000
        b0 == b % 1000
        b1 == (b \div 1000) % 1000
        b2 == b \div 1000000
        t0 == a0 * b0
        t1 == a0 * b1 + a1 * b0 + (t0 \div 1000)
        t2 == a0 * b2 + a1 * b1 + a2 * b0 + (t1 \div 1000)
        t3 == a1 * b2 + a2 * b1 + (t2 \div 1000)
    IN  Big(t3 + a2 * b2 * 1000,
            (t0 % 1000) + (t1 % 1000) * 1000 + (t2 % 1000) * 1000000)

\* floor(x / 5)
BigDiv5(x) == Big(x.hi \div 5, (x.hi % 5) * (BigBase \div 5) + (x.lo \div 5))

\* 2^53: above it a double no longer holds every integer
Pow2_53 == Big(9007199, 254740992)

\* spacing of the doubles around the integer v: 1 below 2^53, 2 below 2^54...
RECURSIVE Ulp(_, _, _)
Ulp(v, threshold, u) ==
    IF BigLt(v, threshold) THEN u
    ELSE Ulp(v, BigAdd(threshold, threshold), 2 * u)

\* Number(v) of a bigint v: the nearest double, ties to the even significand
\* (the spacing divides 10^9 for every v the model uses, so the remainder
\* and the parity of the quotient are those of the low limb)
ToNumber(v) ==
    LET u    == Ulp(v, Pow2_53, 1)
        r    == v.lo % u
        down == BigSub(v, Big(0, r))
        up   == BigAdd(down, Big(0, u))
    IN  IF 2 * r < u THEN down
        ELSE IF 2 * r > u THEN up
        ELSE IF (v.lo \div u) % 2 = 0 THEN down ELSE up

\* x + y of two doubles holding non-negative integers: the exact sum, rounded
FAdd(x, y) == ToNumber(BigAdd(x, y))

\* parseFloat((d / 1e18).toFixed(6)) for a double d holding a non-negative
\* integer number of wei: the amount in units of 10^-6 ETH (10^12 wei),
\* rounded half up
ToFixed6(v) == (v.hi \div 1000) + (IF v.hi % 1000 >= 500 THEN 1 ELSE 0)

\* parseFloat(((x - y) / 1e18).toFixed(6)) for doubles x, y: sign and
\* magnitude in units of 10^-6 ETH
FSubToFixed6(x, y) ==
    IF BigLe(y, x) THEN [neg |-> FALSE, micro |-> ToFixed6(ToNumber(BigSub(x, y)))]
    ELSE [neg |-> TRUE, micro |-> ToFixed6(ToNumber(BigSub(y, x)))]

\* ------------------------------------------------------------------------
\* Values shared by the tools
\* ------------------------------------------------------------------------
NoResponse == [kind |-> "none"]

NoLocals == [unused |-> TRUE]

\* null, and a value that is not null
Null == [isNull |-> TRUE]

Some(v) == [isNull |-> FALSE, value |-> v]

Addresses == {"0xA", "0xB"}

\* the tagged error object every catch block builds: error, message, the
\* request's address field and a timestamp
ErrorOutput(msg, address, now) ==
    [kind |-> "error", error |-> TRUE, message |-> msg,
     address |-> address, timestamp |-> now]

\* a field of the response other than its timestamp
StripTimestamp(r) == [f \in (DOMAIN r) \ {"timestamp"} |-> r[f]]

\* ------------------------------------------------------------------------
\* Dispatch of a request, and a repeated request
\* ------------------------------------------------------------------------

\* the request a handler is invoked with: any address the first time, the
\* same address when the request is repeated
RequestAddresses == IF run = 1 THEN Addresses ELSE {input.address}

\* the same request is made again against the same upstream state; the
\* handler's previous response is kept for comparison
Reinvoke ==
    /\ pc = "done"
    /\ run < MaxRuns
    /\ run' = run + 1
    /\ clock' = clock + 1
    /\ prevResponse' = response
    /\ response' = NoResponse
    /\ pc' = "idle"
    /\ UNCHANGED <<tool, env, input, calls, cr, tp, co, cache, mw, cs>>

\* ------------------------------------------------------------------------
\* getShapeCreatorAnalytics (gasback version)
\* ------------------------------------------------------------------------

\* what the gasback contract answers for one token: getTokenTotalGasback and
\* getTokenGasbackBalance in wei, and the number of addresses in
\* getTokenRegisteredContracts
TokenProfiles ==
    { [total |-> Pow2_53,      balance |-> Big(0, 1),    contracts |-> 1],
      [total |-> Big(0, 1),    balance |-> BigZero,      contracts |-> 2],
      [total |-> Big(3000, 0), balance |-> Big(1000, 0), contracts |-> 0],
      [total |-> BigZero,      balance |-> Big(2000, 0), contracts |-> 3] }

TokenReads == {"getTokenTotalGasback", "getTokenGasbackBalance",
               "getTokenRegisteredContracts"}

\* the per-token reads that reject: none, or one read of one token
FailureSets(n) == { {} } \cup { {<<t, f>>} : t \in 1..n, f \in TokenReads }

\* upstream states for the tool: getOwnedTokens rejects, or it returns the
\* token ids 1..n, token t answers tokens[t] and the reads in `failing`
\* reject
CreatorEnvs ==
    { [ownedFails |-> TRUE, tokens |-> <<>>, failing |-> {}] }
    \cup
    UNION { { [ownedFails |-> FALSE, tokens |-> ts, failing |-> fs] :
                fs \in FailureSets(Len(ts)) } :
            ts \in UNION { [1..n -> TokenProfiles] : n \in 0..MaxOwned } }

CreatorErrorMessage == "Error analyzing creator gasback data"

\* lines 47-56: the output object before aggregation
CreatorAnalytics(address, now, owned) ==
    [kind |-> "creatorAnalytics",
     creatorAddress |-> address,
     timestamp |-> now,
     hasTokens |-> Len(owned) > 0,
     totalTokens |-> Len(owned),
     totalEarnedETH |-> 0,
     currentBalanceETH |-> 0,
     totalWithdrawnETH |-> [neg |-> FALSE, micro |-> 0],
     registeredContracts |-> 0]

\* accumulators kept between invocations instead of being declared in the
\* handler
CreatorKeptTotals ==
    IF "totals" \in DOMAIN cr
    THEN cr.totals
    ELSE [totalGasbackEarned |-> BigZero,
          totalCurrentBalance |-> BigZero,
          totalRegisteredContracts |-> 0]

\* lines 70-72: the accumulators before the loop
CreatorFreshTotals ==
    [totalGasbackEarned |-> BigZero,
     totalCurrentBalance |-> BigZero,
     totalRegisteredContracts |-> 0]

\* lines 88-90: one token's answers added to the accumulators; the wei
\* amounts are converted with Number() and added as doubles
CreatorAccumulate(totals, answer) ==
    [totalGasbackEarned |->
        FAdd(totals.totalGasbackEarned, ToNumber(answer.total)),
     totalCurrentBalance |->
        FAdd(totals.totalCurrentBalance, ToNumber(answer.balance)),
     totalRegisteredContracts |->
        totals.totalRegisteredContracts + answer.contracts]

\* lines 93-102: the aggregates written into the output object
CreatorFinish(analytics, totals) ==
    [analytics EXCEPT
        !.totalEarnedETH = ToFixed6(totals.totalGasbackEarned),
        !.currentBalanceETH = ToFixed6(totals.totalCurrentBalance),
        !.totalWithdrawnETH = FSubToFixed6(totals.totalGasbackEarned,
                                           totals.totalCurrentBalance),
        !.registeredContracts = totals.totalRegisteredContracts]

\* lines 32-45: the handler starts and sends getOwnedTokens
CreatorInvoke ==
    /\ tool = "creator"
    /\ pc = "idle"
    /\ \E a \in RequestAddresses : input' = [address |-> a]
    /\ calls' = <<[fn |-> "getOwnedTokens", arg |-> 0]>>
    /\ pc' = "getOwnedTokens"
    /\ UNCHANGED <<tool, env, clock, run, response, prevResponse,
                   cr, tp, co, cache, mw, cs>>

\* a handler without its catch block: the exception leaves the handler
CreatorRethrow ==
    /\ response' = [kind |-> "exception"]
    /\ pc' = "done"

\* lines 112-130: the catch block
CreatorCatch ==
    /\ response' = ErrorOutput(CreatorErrorMessage, input.address, clock)
    /\ pc' = "done"

\* the three reads of Promise.all for the token at position i (lines 75-86)
CreatorTokenCalls(tokenId) ==
    <<[fn |-> "getTokenTotalGasback", arg |-> tokenId],
      [fn |-> "getTokenGasbackBalance", arg |-> tokenId],
      [fn |-> "getTokenRegisteredContracts", arg |-> tokenId]>>

\* a join that never rejects: the rejection of a read is swallowed
PromiseAllSwallows(e, tokenId) == FALSE

\* lines 75-86: Promise.all over the three reads of a token rejects when one
\* of them rejects
PromiseAllRejects(e, tokenId) ==
    \E f \in TokenReads : <<tokenId, f>> \in e.failing

\* lines 43-74: getOwnedTokens settles; on success the output object is
\* built, returned at once when no token is owned, and otherwise the loop
\* sends the three reads of the first token
CreatorOwnedTokensSettles ==
    /\ tool = "creator"
    /\ pc = "getOwnedTokens"
    /\ IF env.ownedFails
       THEN /\ CreatorCatch
            /\ UNCHANGED <<cr, calls>>
       ELSE LET owned == [t \in 1..Len(env.tokens) |-> t]
                analytics == CreatorAnalytics(input.address, clock, owned)
            IN  IF Len(owned) = 0
                THEN /\ response' = analytics
                     /\ pc' = "done"
                     /\ cr' = [ownedTokens |-> owned, i |-> 1,
                               analytics |-> analytics,
                               totals |-> CreatorFreshTotals]
                     /\ UNCHANGED calls
                ELSE /\ cr' = [ownedTokens |-> owned, i |-> 1,
                               analytics |-> analytics,
                               totals |-> CreatorFreshTotals]
                     /\ calls' = calls \o CreatorTokenCalls(owned[1])
                     /\ pc' = "tokenReads"
                     /\ UNCHANGED response
    /\ UNCHANGED <<tool, env, input, clock, run, prevResponse, tp, co, cache, mw,
                   cs>>

\* lines 74-111: Promise.all of the current token settles.  It rejects when
\* any of the three reads rejects, and the rejection reaches the catch
\* block; otherwise the answers are accumulated and the loop goes on to the
\* next token or, after the last one, the result is returned
CreatorTokenReadsSettle ==
    /\ tool = "creator"
    /\ pc = "tokenReads"
    /\ LET tokenId == cr.ownedTokens[cr.i]
           rejected == PromiseAllRejects(env, tokenId)
           totals == CreatorAccumulate(cr.totals, env.tokens[tokenId])
       IN  IF rejected
           THEN /\ CreatorCatch
                /\ UNCHANGED <<cr, calls>>
           ELSE IF cr.i < Len(cr.ownedTokens)
           THEN /\ cr' = [cr EXCEPT !.i = cr.i + 1, !.totals = totals]
                /\ calls' = calls \o CreatorTokenCalls(cr.ownedTokens[cr.i + 1])
                /\ UNCHANGED <<pc, response>>
           ELSE /\ cr' = [cr EXCEPT !.totals = totals]
                /\ response' = CreatorFinish(cr.analytics, totals)
                /\ pc' = "done"
                /\ UNCHANGED calls
    /\ UNCHANGED <<tool, env, input, clock, run, prevResponse, tp, co, cache, mw,
                   cs>>

InitCreator ==
    /\ tool = "creator"
    /\ pc = "idle"
    /\ env \in CreatorEnvs
    /\ input = [address |-> "none"]
    /\ clock = 1
    /\ run = 1
    /\ response = NoResponse
    /\ prevResponse = NoResponse
    /\ calls = <<>>
    /\ cr = NoLocals
    /\ tp = NoLocals
    /\ co = NoLocals
    /\ cs = NoLocals
    /\ cache = <<>>
    /\ mw = NoLocals

NextCreator ==
    \/ CreatorInvoke
    \/ CreatorOwnedTokensSettles
    \/ CreatorTokenReadsSettle
    \/ Reinvoke

SpecCreator == InitCreator /\ [][NextCreator]_vars

\* ------------------------------------------------------------------------
\* getTopShapeCreators (multicall version)
\* ------------------------------------------------------------------------

batchSize == 100

TopLimit == 25

TopErrorMessage == "Error fetching top Shape creators"

Min(a, b) == IF a < b THEN a ELSE b

\* answers of the gasback contract for token t: the four profiles in turn
TopProfiles ==
    << [total |-> Big(0, 1),    balance |-> BigZero,      contracts |-> 2],
       [total |-> Pow2_53,      balance |-> Big(0, 1),    contracts |-> 1],
       [total |-> Big(3000, 0), balance |-> Big(1000, 0), contracts |-> 0],
       [total |-> Big(0, 2),    balance |-> Big(0, 2),    contracts |-> 3] >>

TopProfileOf(t) == TopProfiles[((t - 1) % Len(TopProfiles)) + 1]

\* upstream states for the tool.  totalSupply rejects, or it answers
\* `supply`; token t belongs to owner ((t - 1) % ownerMod) + 1; ownerOf
\* reverts for the tokens in ownerFailing; the analytics reads in
\* readFailing (pairs of token id and function) revert; the multicall
\* requests in ownerBatchThrows / readBatchThrows (numbered from 1 in the
\* order they are sent) throw as a whole
TopSupplies == {0, 1, 2, 27, MaxSupply}

TopEnvs ==
    { [supplyFails |-> TRUE, supply |-> 0, ownerMod |-> 1,
       ownerFailing |-> {}, readFailing |-> {},
       ownerBatchThrows |-> {}, readBatchThrows |-> {}] }
    \cup
    { [supplyFails |-> FALSE, supply |-> n, ownerMod |-> m,
       ownerFailing |-> of, readFailing |-> rf,
       ownerBatchThrows |-> ob, readBatchThrows |-> rb] :
        n \in TopSupplies,
        m \in {1, 2, 26},
        of \in { {}, {1}, 1..MaxSupply + 1 },
        rf \in { {}, {<<1, "getTokenTotalGasback">>},
                 {<<2, "getTokenRegisteredContracts">>},
                 {<<34, "getTokenGasbackBalance">>} },
        ob \in { {}, {1}, {2} },
        rb \in { {}, {1}, {2}, {4} } }

Failure == [status |-> "failure"]

Success(v) == [status |-> "success", result |-> v]

\* the result of one contract call inside a multicall with allowFailure
CallResult(e, call) ==
    IF call.fn = "ownerOf"
    THEN IF call.arg \in e.ownerFailing THEN Failure
         ELSE Success(((call.arg - 1) % e.ownerMod) + 1)
    ELSE IF <<call.arg, call.fn>> \in e.readFailing THEN Failure
    ELSE IF call.fn = "getTokenTotalGasback"
         THEN Success(TopProfileOf(call.arg).total)
    ELSE IF call.fn = "getTokenGasbackBalance"
         THEN Success(TopProfileOf(call.arg).balance)
    ELSE Success(TopProfileOf(call.arg).contracts)

\* lines 156-167 and 218-228: the results pushed for one batch: those of the
\* multicall, or one failure per call of the batch when the multicall threw
BatchResults(e, batch, threw) ==
    IF threw THEN [k \in 1..Len(batch) |-> Failure]
    ELSE [k \in 1..Len(batch) |-> CallResult(e, batch[k])]

\* lines 140-148: one ownerOf call per token id 1..totalTokens
OwnerCalls(totalTokens) ==
    [t \in 1..totalTokens |-> [fn |-> "ownerOf", arg |-> t]]

\* a loop that advances by less than the batch it sends
NextOffsetOverlapping(i) == i + (batchSize \div 2)

\* lines 154 and 216: i += batchSize
NextOffset(i) == i + batchSize

\* batch.slice(i, i + batchSize)
Slice(s, i) == SubSeq(s, i + 1, Min(i + batchSize, Len(s)))

\* an owner map keyed by the rank of the result among the successes
TokenOwnersByRank(ownerResults) ==
    LET kept == SelectSeq(ownerResults, LAMBDA r : r.status = "success")
    IN  [k \in 1..Len(kept) |-> [tokenId |-> k, owner |-> kept[k].result]]

\* lines 171-176: the owner map as the sequence of its entries in insertion
\* order; the result at index k (from 0) is taken for token id k + 1
TokenOwners(ownerResults) ==
    LET indexed == [k \in 1..Len(ownerResults) |->
                       [tokenId |-> k, r |-> ownerResults[k]]]
        kept == SelectSeq(indexed, LAMBDA e : e.r.status = "success")
    IN  [k \in 1..Len(kept) |->
            [tokenId |-> kept[k].tokenId, owner |-> kept[k].r.result]]

\* a handler that goes on to the analytics calls with an empty owner map
NoOwnersIgnored(tokenOwners) == FALSE

\* line 178: if (tokenOwners.size === 0)
NoOwners(tokenOwners) == Len(tokenOwners) = 0

\* lines 190-212: three analytics calls per token of the owner map, in the
\* order of the map
AnalyticsFunctions == <<"getTokenTotalGasback", "getTokenGasbackBalance",
                        "getTokenRegisteredContracts">>

AnalyticsCalls(tokenOwners) ==
    [k \in 1..(3 * Len(tokenOwners)) |->
        [fn |-> AnalyticsFunctions[((k - 1) % 3) + 1],
         arg |-> tokenOwners[((k - 1) \div 3) + 1].tokenId]]

\* position of owner in the creatorStats map (0 when absent)
StatsIndex(stats, owner) ==
    IF \E k \in 1..Len(stats) : stats[k].address = owner
    THEN CHOOSE k \in 1..Len(stats) : stats[k].address = owner
    ELSE 0

\* lines 258-274: one token added to its owner's entry
AddToken(stats, owner, total, balance, contracts) ==
    LET k == StatsIndex(stats, owner)
        withOwner == IF k = 0
                     THEN Append(stats, [address |-> owner,
                                         totalTokens |-> 0,
                                         totalEarnedWei |-> BigZero,
                                         currentBalanceWei |-> BigZero,
                                         registeredContracts |-> 0])
                     ELSE stats
        j == IF k = 0 THEN Len(withOwner) ELSE k
    IN  [withOwner EXCEPT
            ![j].totalTokens = @ + 1,
            ![j].totalEarnedWei = BigAdd(@, total),
            ![j].currentBalanceWei = BigAdd(@, balance),
            ![j].registeredContracts = @ + contracts]

\* the entry of owner in the map, or an entry of zeros when it has none
StatsOf(stats, owner) ==
    IF StatsIndex(stats, owner) = 0
    THEN [address |-> owner, totalTokens |-> 0, totalEarnedWei |-> BigZero,
          currentBalanceWei |-> BigZero, registeredContracts |-> 0]
    ELSE stats[StatsIndex(stats, owner)]

\* an entry assigned where it has to be added to: a later token of an owner
\* replaces the sums of the earlier ones
MergeStatsOverwrites(a, b) ==
    LET owners == a \o SelectSeq(b, LAMBDA e : StatsIndex(a, e.address) = 0)
    IN  [k \in 1..Len(owners) |->
            IF StatsIndex(b, owners[k].address) = 0
            THEN StatsOf(a, owners[k].address)
            ELSE StatsOf(b, owners[k].address)]

\* the map after the loop has run over two consecutive runs of tokens, from
\* the maps a and b that each run builds on its own: the owners of a in
\* their order, then the owners first seen in b, every owner with the sums
\* of both
MergeStats(a, b) ==
    LET owners == a \o SelectSeq(b, LAMBDA e : StatsIndex(a, e.address) = 0)
    IN  [k \in 1..Len(owners) |->
            LET x == StatsOf(a, owners[k].address)
                y == StatsOf(b, owners[k].address)
            IN  [address |-> owners[k].address,
                 totalTokens |-> x.totalTokens + y.totalTokens,
                 totalEarnedWei |-> BigAdd(x.totalEarnedWei, y.totalEarnedWei),
                 currentBalanceWei |->
                     BigAdd(x.currentBalanceWei, y.currentBalanceWei),
                 registeredContracts |->
                     x.registeredContracts + y.registeredContracts]]

\* a loop body that never advances resultIndex: every token is given the
\* first three results
TokenStatsFirstResults(tokenOwners, analyticsResults, n) ==
    LET totalGasbackResult == analyticsResults[1]
        currentBalanceResult == analyticsResults[2]
        registeredContractsResult == analyticsResults[3]
    IN  IF /\ totalGasbackResult.status = "success"
           /\ currentBalanceResult.status = "success"
           /\ registeredContractsResult.status = "success"
        THEN AddToken(<<>>, tokenOwners[n].owner,
                      totalGasbackResult.result,
                      currentBalanceResult.result,
                      registeredContractsResult.result)
        ELSE <<>>

\* lines 245-276: the body of the loop for token number n of the owner map,
\* which reads the results at resultIndex = 3 * (n - 1) and the two after it
TokenStats(tokenOwners, analyticsResults, n) ==
    LET resultIndex == 3 * (n - 1)
        totalGasbackResult == analyticsResults[resultIndex + 1]
        currentBalanceResult == analyticsResults[resultIndex + 2]
        registeredContractsResult == analyticsResults[resultIndex + 3]
    IN  IF /\ totalGasbackResult.status = "success"
           /\ currentBalanceResult.status = "success"
           /\ registeredContractsResult.status = "success"
        THEN AddToken(<<>>, tokenOwners[n].owner,
                      totalGasbackResult.result,
                      currentBalanceResult.result,
                      registeredContractsResult.result)
        ELSE <<>>

\* lines 244-276: the loop over tokens lo..hi of the owner map (the range is
\* halved so that the evaluation stays shallow)
RECURSIVE CreatorStats(_, _, _, _)
CreatorStats(tokenOwners, analyticsResults, lo, hi) ==
    IF lo > hi THEN <<>>
    ELSE IF lo = hi THEN TokenStats(tokenOwners, analyticsResults, lo)
    ELSE LET mid == (lo + hi) \div 2
         IN  MergeStats(CreatorStats(tokenOwners, analyticsResults, lo, mid),
                        CreatorStats(tokenOwners, analyticsResults,
                                     mid + 1, hi))

\* lines 280-290: an entry of the output
TopEntry(stats) ==
    [address |-> stats.address,
     totalTokens |-> stats.totalTokens,
     totalEarnedETH |-> ToFixed6(ToNumber(stats.totalEarnedWei)),
     currentBalanceETH |-> ToFixed6(ToNumber(stats.currentBalanceWei)),
     registeredContracts |-> stats.registeredContracts]

\* the comparator with its operands exchanged: ascending order
SortedPositionAscending(entries, k) ==
    1 + Cardinality({ j \in 1..Len(entries) :
                        \/ entries[j].totalEarnedETH < entries[k].totalEarnedETH
                        \/ /\ entries[j].totalEarnedETH = entries[k].totalEarnedETH
                           /\ j < k })

\* line 291: Array.prototype.sort with the comparator b.totalEarnedETH -
\* a.totalEarnedETH is a stable sort: entry k comes after the entries that
\* have a larger totalEarnedETH and after the earlier entries that have the
\* same
SortedPosition(entries, k) ==
    1 + Cardinality({ j \in 1..Len(entries) :
                        \/ entries[j].totalEarnedETH > entries[k].totalEarnedETH
                        \/ /\ entries[j].totalEarnedETH = entries[k].totalEarnedETH
                           /\ j < k })

SortByEarned(entries) ==
    [p \in 1..Len(entries) |->
        entries[CHOOSE k \in 1..Len(entries) : SortedPosition(entries, k) = p]]

\* lines 279-292
TopCreators(stats) ==
    LET entries == [k \in 1..Len(stats) |-> TopEntry(stats[k])]
        sorted == SortByEarned(entries)
    IN  SubSeq(sorted, 1, Min(TopLimit, Len(sorted)))

\* lines 122-126
TopResult(now) ==
    [kind |-> "topCreators", timestamp |-> now,
     totalCreatorsAnalyzed |-> 0, topCreators |-> <<>>]

\* lines 109-119: the handler starts and sends totalSupply
TopInvoke ==
    /\ tool = "top"
    /\ pc = "idle"
    /\ input' = [address |-> "none"]
    /\ calls' = <<[fn |-> "totalSupply", arg |-> 0]>>
    /\ pc' = "totalSupply"
    /\ UNCHANGED <<tool, env, clock, run, response, prevResponse,
                   cr, tp, co, cache, mw, cs>>

\* lines 305-322: the catch block
TopCatch ==
    /\ response' = ErrorOutput(TopErrorMessage, "none", clock)
    /\ pc' = "done"

\* the multicall request for the batch that starts at offset i
BatchCall(kind, i) == [fn |-> "multicall", arg |-> kind, offset |-> i]

\* lines 231-304: aggregation, ranking and the response, run once every
\* analytics batch has settled
TopRespond(locals, analyticsResults) ==
    LET stats == CreatorStats(locals.tokenOwners, analyticsResults,
                              1, Len(locals.tokenOwners))
    IN  /\ tp' = [locals EXCEPT !.analyticsResults = analyticsResults,
                                !.creatorStats = stats]
        /\ response' = [locals.result EXCEPT
                          !.totalCreatorsAnalyzed = Len(stats),
                          !.topCreators = TopCreators(stats)]
        /\ pc' = "done"

\* lines 119-157: totalSupply settles; the empty result is returned at once
\* for a supply of 0, and otherwise the owner calls are built and the first
\* owner batch is sent
TopSupplySettles ==
    /\ tool = "top"
    /\ pc = "totalSupply"
    /\ IF env.supplyFails
       THEN /\ TopCatch
            /\ UNCHANGED <<tp, calls>>
       ELSE LET totalTokens == env.supply
                locals == [totalTokens |-> totalTokens,
                           result |-> TopResult(clock),
                           ownerCalls |-> OwnerCalls(totalTokens),
                           ownerResults |-> <<>>,
                           i |-> 0,
                           tokenOwners |-> <<>>,
                           analyticsCalls |-> <<>>,
                           analyticsResults |-> <<>>,
                           creatorStats |-> <<>>]
            IN  /\ tp' = locals
                /\ IF totalTokens = 0
                   THEN /\ response' = locals.result
                        /\ pc' = "done"
                        /\ UNCHANGED calls
                   ELSE /\ calls' = Append(calls, BatchCall("owner", 0))
                        /\ pc' = "ownerBatch"
                        /\ UNCHANGED response
    /\ UNCHANGED <<tool, env, input, clock, run, prevResponse, cr, co, cache, mw,
                   cs>>

\* lines 154-229: an owner batch settles (its results, or failures when the
\* multicall threw).  The next owner batch is sent, or after the last one
\* the owner map is built: the empty result is returned when the map is
\* empty, and otherwise the analytics calls are built and their first batch
\* is sent
TopOwnerBatchSettles ==
    /\ tool = "top"
    /\ pc = "ownerBatch"
    /\ LET batch == Slice(tp.ownerCalls, tp.i)
           threw == ((tp.i \div batchSize) + 1) \in env.ownerBatchThrows
           ownerResults == tp.ownerResults \o BatchResults(env, batch, threw)
           next == NextOffset(tp.i)
       IN  IF next < Len(tp.ownerCalls)
           THEN /\ tp' = [tp EXCEPT !.ownerResults = ownerResults,
                                    !.i = next]
                /\ calls' = Append(calls, BatchCall("owner", next))
                /\ UNCHANGED <<pc, response>>
           ELSE LET tokenOwners == TokenOwners(ownerResults)
                    analyticsCalls == AnalyticsCalls(tokenOwners)
                IN  /\ tp' = [tp EXCEPT !.ownerResults = ownerResults,
                                        !.i = 0,
                                        !.tokenOwners = tokenOwners,
                                        !.analyticsCalls = analyticsCalls]
                    /\ IF NoOwners(tokenOwners)
                       THEN /\ response' = tp.result
                            /\ pc' = "done"
                            /\ UNCHANGED calls
                       ELSE /\ calls' = Append(calls, BatchCall("analytics", 0))
                            /\ pc' = "analyticsBatch"
                            /\ UNCHANGED response
    /\ UNCHANGED <<tool, env, input, clock, run, prevResponse, cr, co, cache, mw,
                   cs>>

\* lines 216-304: an analytics batch settles; the next one is sent, or after
\* the last one the creators are aggregated and the response is returned
TopAnalyticsBatchSettles ==
    /\ tool = "top"
    /\ pc = "analyticsBatch"
    /\ LET batch == Slice(tp.analyticsCalls, tp.i)
           threw == ((tp.i \div batchSize) + 1) \in env.readBatchThrows
           analyticsResults ==
               tp.analyticsResults \o BatchResults(env, batch, threw)
           next == NextOffset(tp.i)
       IN  IF next < Len(tp.analyticsCalls)
           THEN /\ tp' = [tp EXCEPT !.analyticsResults = analyticsResults,
                                    !.i = next]
                /\ calls' = Append(calls, BatchCall("analytics", next))
                /\ UNCHANGED <<pc, response>>
           ELSE /\ TopRespond(tp, analyticsResults)
                /\ UNCHANGED calls
    /\ UNCHANGED <<tool, env, input, clock, run, prevResponse, cr, co, cache, mw,
                   cs>>

InitTop ==
    /\ tool = "top"
    /\ pc = "idle"
    /\ env \in TopEnvs
    /\ input = [address |-> "none"]
    /\ clock = 1
    /\ run = 1
    /\ response = NoResponse
    /\ prevResponse = NoResponse
    /\ calls = <<>>
    /\ cr = NoLocals
    /\ tp = NoLocals
    /\ co = NoLocals
    /\ cs = NoLocals
    /\ cache = <<>>
    /\ mw = NoLocals

NextTop ==
    \/ TopInvoke
    \/ TopSupplySettles
    \/ TopOwnerBatchSettles
    \/ TopAnalyticsBatchSettles
    \/ Reinvoke

SpecTop == InitTop /\ [][NextTop]_vars

\* ------------------------------------------------------------------------
\* simulateGasbackEarnings
\* ------------------------------------------------------------------------

SimulateErrorMessage == "Error simulating Gasback"

\* upstream states: getGasPrice rejects, or answers a price in wei
SimulateEnvs ==
    { [gasPriceFails |-> TRUE, gasPrice |-> 0] }
    \cup { [gasPriceFails |-> FALSE, gasPrice |-> p] : p \in {0, 1, 1000000} }

\* z.number() admits fractions, for which BigInt() throws a RangeError
SimulateInputs ==
    { [address |-> a, hypotheticalTxs |-> t, avgGasPerTx |-> g] :
        a \in Addresses,
        t \in { [integer |-> TRUE, value |-> 0],
                [integer |-> TRUE, value |-> 100],
                [integer |-> FALSE, value |-> 1] },
        g \in { [integer |-> TRUE, value |-> 100000],
                [integer |-> TRUE, value |-> 21000] } }

\* lines 42-46: 80% of hypotheticalTxs * avgGasPerTx * gas price, in bigint
\* arithmetic: total * 800000000000000000 / 1000000000000000000
EstimatedEarningsWei(txs, gas, price) ==
    LET totalGasSpent == IntTimes(txs * gas, price)
        twice == BigAdd(totalGasSpent, totalGasSpent)
    IN  BigDiv5(BigAdd(twice, twice))

\* lines 33-40: the handler starts and sends getGasPrice
SimulateInvoke ==
    /\ tool = "simulate"
    /\ pc = "idle"
    /\ \E in \in SimulateInputs :
          /\ run > 1 => in = input
          /\ input' = in
    /\ calls' = <<[fn |-> "getGasPrice", arg |-> 0]>>
    /\ pc' = "getGasPrice"
    /\ UNCHANGED <<tool, env, clock, run, response, prevResponse,
                   cr, tp, co, cache, mw, cs>>

\* lines 40-84: getGasPrice settles; a rejection, and the RangeError of
\* BigInt() on a fraction, reach the catch block
SimulateGasPriceSettles ==
    /\ tool = "simulate"
    /\ pc = "getGasPrice"
    /\ IF \/ env.gasPriceFails
          \/ ~input.hypotheticalTxs.integer
          \/ ~input.avgGasPerTx.integer
       THEN response' = ErrorOutput(SimulateErrorMessage, input.address, clock)
       ELSE response' =
              [kind |-> "simulation",
               contractAddress |-> input.address,
               timestamp |-> clock,
               hypotheticalTxs |-> input.hypotheticalTxs.value,
               avgGasPerTx |-> input.avgGasPerTx.value,
               currentGasPriceWei |-> env.gasPrice,
               estimatedEarningsETH |->
                  ToFixed6(ToNumber(EstimatedEarningsWei(
                      input.hypotheticalTxs.value, input.avgGasPerTx.value,
                      env.gasPrice)))]
    /\ pc' = "done"
    /\ UNCHANGED <<tool, env, input, clock, run, prevResponse, calls,
                   cr, tp, co, cache, mw, cs>>

InitSimulate ==
    /\ tool = "simulate"
    /\ pc = "idle"
    /\ env \in SimulateEnvs
    /\ input = [address |-> "none"]
    /\ clock = 1
    /\ run = 1
    /\ response = NoResponse
    /\ prevResponse = NoResponse
    /\ calls = <<>>
    /\ cr = NoLocals
    /\ tp = NoLocals
    /\ co = NoLocals
    /\ cs = NoLocals
    /\ cache = <<>>
    /\ mw = NoLocals

\* ------------------------------------------------------------------------
\* getStackAchievements (version that takes an address)
\* ------------------------------------------------------------------------

StackErrorMessage == "Error fetching Stack achievements"

\* a medal of the Stack contract: its tier, its uid and its timestamp
Medals ==
    { [medalTier |-> t, medalUID |-> u, timestamp |-> ts] :
        t \in {1, 2, 3, 4}, u \in {"0x01"}, ts \in {0, 5} }
    \cup { [medalTier |-> 0, medalUID |-> "0x02", timestamp |-> 9] }

\* upstream states: addressToTokenId rejects or answers a stack id (0: the
\* address has no Stack); getStackMedals rejects or answers the medals
StackEnvs ==
    { [stackIdFails |-> TRUE, stackId |-> 0, medalsFail |-> FALSE,
       medals |-> <<>>] }
    \cup
    { [stackIdFails |-> FALSE, stackId |-> 0, medalsFail |-> FALSE,
       medals |-> <<>>] }
    \cup
    { [stackIdFails |-> FALSE, stackId |-> 7, medalsFail |-> TRUE,
       medals |-> <<>>] }
    \cup
    { [stackIdFails |-> FALSE, stackId |-> 7, medalsFail |-> FALSE,
       medals |-> ms] :
        ms \in UNION { [1..n -> Medals] : n \in 0..MaxMedals } }

NoMedals == [bronze |-> 0, silver |-> 0, gold |-> 0, special |-> 0]

\* a count that knows the tiers 1 to 3 only
CountTierKnownOnly(byTier, tier) ==
    IF tier = 1 THEN [byTier EXCEPT !.bronze = @ + 1]
    ELSE IF tier = 2 THEN [byTier EXCEPT !.silver = @ + 1]
    ELSE IF tier = 3 THEN [byTier EXCEPT !.gold = @ + 1]
    ELSE byTier

\* lines 100-108: the medal is counted in the tier of its medalTier
CountTier(byTier, tier) ==
    IF tier = 1 THEN [byTier EXCEPT !.bronze = @ + 1]
    ELSE IF tier = 2 THEN [byTier EXCEPT !.silver = @ + 1]
    ELSE IF tier = 3 THEN [byTier EXCEPT !.gold = @ + 1]
    ELSE [byTier EXCEPT !.special = @ + 1]

\* lines 95-115: the loop over the medals; the state of the loop is the
\* counters and the most recent medal seen
RECURSIVE CountMedals(_, _)
CountMedals(medals, n) ==
    IF n = 0
    THEN [medalsByTier |-> NoMedals, lastMedalTimestamp |-> 0,
          lastMedalUID |-> "null"]
    ELSE LET before == CountMedals(medals, n - 1)
             medal == medals[n]
             tier == medal.medalTier
             counted == CountTier(before.medalsByTier, tier)
         IN  IF medal.timestamp > before.lastMedalTimestamp
             THEN [medalsByTier |-> counted,
                   lastMedalTimestamp |-> medal.timestamp,
                   lastMedalUID |-> medal.medalUID]
             ELSE [before EXCEPT !.medalsByTier = counted]

\* lines 117-129: the output for an address that has a Stack
StackResult(address, now, medals) ==
    LET loop == CountMedals(medals, Len(medals))
    IN  [kind |-> "stackAchievements",
         userAddress |-> address,
         timestamp |-> now,
         hasStack |-> TRUE,
         totalMedals |-> Len(medals),
         medalsByTier |-> loop.medalsByTier,
         lastMedalClaimed |->
            IF loop.lastMedalUID # "null"
            THEN [medalUID |-> loop.lastMedalUID,
                  claimedAt |-> loop.lastMedalTimestamp * 1000]
            ELSE [medalUID |-> "null", claimedAt |-> 0]]

\* lines 48-60: the output for an address without a Stack
StackEmptyResult(address, now) ==
    [kind |-> "stackAchievements",
     userAddress |-> address,
     timestamp |-> now,
     hasStack |-> FALSE,
     totalMedals |-> 0,
     medalsByTier |-> NoMedals,
     lastMedalClaimed |-> [medalUID |-> "null", claimedAt |-> 0]]

\* lines 31-44: the handler starts and sends addressToTokenId
StackInvoke ==
    /\ tool = "stack"
    /\ pc = "idle"
    /\ \E a \in RequestAddresses : input' = [address |-> a]
    /\ calls' = <<[fn |-> "addressToTokenId", arg |-> 0]>>
    /\ pc' = "addressToTokenId"
    /\ UNCHANGED <<tool, env, clock, run, response, prevResponse,
                   cr, tp, co, cache, mw, cs>>

\* lines 42-75 and 139-157: addressToTokenId settles; a rejection reaches
\* the catch block, a stack id of 0 returns the empty output, any other id
\* sends getStackMedals
StackTokenIdSettles ==
    /\ tool = "stack"
    /\ pc = "addressToTokenId"
    /\ IF env.stackIdFails
       THEN /\ response' = ErrorOutput(StackErrorMessage, input.address, clock)
            /\ pc' = "done"
            /\ UNCHANGED calls
       ELSE IF env.stackId = 0
       THEN /\ response' = StackEmptyResult(input.address, clock)
            /\ pc' = "done"
            /\ UNCHANGED calls
       ELSE /\ calls' = Append(calls, [fn |-> "getStackMedals",
                                       arg |-> env.stackId])
            /\ pc' = "getStackMedals"
            /\ UNCHANGED response
    /\ UNCHANGED <<tool, env, input, clock, run, prevResponse,
                   cr, tp, co, cache, mw, cs>>

\* lines 73-157: getStackMedals settles
StackMedalsSettle ==
    /\ tool = "stack"
    /\ pc = "getStackMedals"
    /\ response' = IF env.medalsFail
                   THEN ErrorOutput(StackErrorMessage, input.address, clock)
                   ELSE StackResult(input.address, clock, env.medals)
    /\ pc' = "done"
    /\ UNCHANGED <<tool, env, input, clock, run, prevResponse, calls,
                   cr, tp, co, cache, mw, cs>>

InitStack ==
    /\ tool = "stack"
    /\ pc = "idle"
    /\ env \in StackEnvs
    /\ input = [address |-> "none"]
    /\ clock = 1
    /\ run = 1
    /\ response = NoResponse
    /\ prevResponse = NoResponse
    /\ calls = <<>>
    /\ cr = NoLocals
    /\ tp = NoLocals
    /\ co = NoLocals
    /\ cs = NoLocals
    /\ cache = <<>>
    /\ mw = NoLocals

\* ------------------------------------------------------------------------
\* getStackAchievements (version that takes an address or an ENS name)
\* ------------------------------------------------------------------------

\* ENS names a request can carry
Names == {"alice.eth", "nobody.eth"}

\* the userAddress of a request: an address or an ENS name
UserAddresses == Addresses \cup Names

\* a test that takes every string for an address
IsAddressAnyString(userAddress) == TRUE

\* isAddress of viem on the request's userAddress
IsAddress(userAddress) == userAddress \in Addresses

\* the message of the error object for a name without an address
UnresolvedMessage(userAddress) ==
    [text |-> "Unable to resolve ENS name", name |-> userAddress]

\* upstream states: getEnsAddress on mainnet rejects, or answers null or an
\* address for each name; the Stack contract as in the address version
StackEnsEnvs ==
    { [ensFails |-> f, ens |-> e, stackIdFails |-> s.stackIdFails,
       stackId |-> s.stackId, medalsFail |-> s.medalsFail,
       medals |-> s.medals] :
        f \in BOOLEAN,
        e \in [Names -> {Null, Some("0xB")}],
        s \in StackEnvs }

\* the request: any userAddress the first time, the same one when repeated
RequestUserAddresses == IF run = 1 THEN UserAddresses ELSE {input.address}

\* the local resolvedAddress once it is assigned: the userAddress itself
\* or the address the name resolved to
ResolvedAddress ==
    IF IsAddress(input.address) THEN input.address
    ELSE env.ens[input.address].value

\* line 334: if (!ensAddress)
EnsUnresolved(ensAddress) == ensAddress.isNull

\* lines 319-354: the handler starts; a valid address is used as it is and
\* addressToTokenId is sent, any other string is looked up on mainnet
StackEnsInvoke ==
    /\ tool = "stackEns"
    /\ pc = "idle"
    /\ \E a \in RequestUserAddresses :
          /\ input' = [address |-> a]
          /\ IF IsAddress(a)
             THEN /\ calls' = <<[fn |-> "addressToTokenId", arg |-> a,
                                 client |-> "shape"]>>
                  /\ pc' = "addressToTokenId"
             ELSE /\ calls' = <<[fn |-> "getEnsAddress", arg |-> a,
                                 client |-> "mainnet"]>>
                  /\ pc' = "getEnsAddress"
    /\ UNCHANGED <<tool, env, clock, run, response, prevResponse,
                   cr, tp, co, cache, mw, cs>>

\* lines 333-354 and 442-460: getEnsAddress settles; a rejection reaches the
\* catch block, an empty answer returns the error object for an unresolved
\* name, an address is used for addressToTokenId
StackEnsLookupSettles ==
    /\ tool = "stackEns"
    /\ pc = "getEnsAddress"
    /\ IF env.ensFails
       THEN /\ response' = ErrorOutput(StackErrorMessage, input.address, clock)
            /\ pc' = "done"
            /\ UNCHANGED calls
       ELSE IF EnsUnresolved(env.ens[input.address])
       THEN /\ response' = ErrorOutput(UnresolvedMessage(input.address),
                                       input.address, clock)
            /\ pc' = "done"
            /\ UNCHANGED calls
       ELSE /\ calls' = Append(calls,
                           [fn |-> "addressToTokenId",
                            arg |-> env.ens[input.address].value,
                            client |-> "shape"])
            /\ pc' = "addressToTokenId"
            /\ UNCHANGED response
    /\ UNCHANGED <<tool, env, input, clock, run, prevResponse,
                   cr, tp, co, cache, mw, cs>>

\* lines 354-388 and 442-460: addressToTokenId settles; a rejection reaches
\* the catch block, a stack id of 0 returns the empty output for the
\* resolved address, any other id sends getStackMedals
StackEnsTokenIdSettles ==
    /\ tool = "stackEns"
    /\ pc = "addressToTokenId"
    /\ IF env.stackIdFails
       THEN /\ response' = ErrorOutput(StackErrorMessage, input.address, clock)
            /\ pc' = "done"
            /\ UNCHANGED calls
       ELSE IF env.stackId = 0
       THEN /\ response' = StackEmptyResult(ResolvedAddress, clock)
            /\ pc' = "done"
            /\ UNCHANGED calls
       ELSE /\ calls' = Append(calls, [fn |-> "getStackMedals",
                                       arg |-> env.stackId,
                                       client |-> "shape"])
            /\ pc' = "getStackMedals"
            /\ UNCHANGED response
    /\ UNCHANGED <<tool, env, input, clock, run, prevResponse,
                   cr, tp, co, cache, mw, cs>>

\* lines 381-460: getStackMedals settles
StackEnsMedalsSettle ==
    /\ tool = "stackEns"
    /\ pc = "getStackMedals"
    /\ response' = IF env.medalsFail
                   THEN ErrorOutput(StackErrorMessage, input.address, clock)
                   ELSE StackResult(ResolvedAddress, clock, env.medals)
    /\ pc' = "done"
    /\ UNCHANGED <<tool, env, input, clock, run, prevResponse, calls,
                   cr, tp, co, cache, mw, cs>>

InitStackEns ==
    /\ tool = "stackEns"
    /\ pc = "idle"
    /\ env \in StackEnsEnvs
    /\ input = [address |-> "none"]
    /\ clock = 1
    /\ run = 1
    /\ response = NoResponse
    /\ prevResponse = NoResponse
    /\ calls = <<>>
    /\ cr = NoLocals
    /\ tp = NoLocals
    /\ co = NoLocals
    /\ cs = NoLocals
    /\ cache = <<>>
    /\ mw = NoLocals

NextStackEns ==
    \/ StackEnsInvoke
    \/ StackEnsLookupSettles
    \/ StackEnsTokenIdSettles
    \/ StackEnsMedalsSettle
    \/ Reinvoke

SpecStackEns == InitStackEns /\ [][NextStackEns]_vars

\* both versions of getStackAchievements
InitStackVersions ==
    \/ InitStack
    \/ InitStackEns

NextStackVersions ==
    \/ StackInvoke
    \/ StackTokenIdSettles
    \/ StackMedalsSettle
    \/ StackEnsInvoke
    \/ StackEnsLookupSettles
    \/ StackEnsTokenIdSettles
    \/ StackEnsMedalsSettle
    \/ Reinvoke

SpecStackVersions == InitStackVersions /\ [][NextStackVersions]_vars

\* ------------------------------------------------------------------------
\* getCollectionAnalytics (nft version, three sub-requests)
\* ------------------------------------------------------------------------

CollectionErrorMessage == "Error fetching collection analytics"

\* x || null for a string: the empty (or missing) string gives null
StringOrNull(x) == IF x = "" THEN Null ELSE Some(x)

\* x || null for a number: 0 (or a missing number) gives null
NumberOrNull(x) == IF x = 0 THEN Null ELSE Some(x)

\* parseInt of the decimal strings the API answers with
ParseInt(str) == CASE str = "1000" -> 1000
                   [] str = "1" -> 1
                   [] str = "0" -> 0

\* contract metadata of an NFT as the API answers it ("" = field missing)
Contracts ==
    { [name |-> "Shapes", symbol |-> "SHP", totalSupply |-> "1000",
       tokenType |-> "ERC721"],
      [name |-> "", symbol |-> "", totalSupply |-> "", tokenType |-> ""],
      [name |-> "Zero", symbol |-> "", totalSupply |-> "0",
       tokenType |-> "ERC1155"] }

\* NFT number k of a page: names and image urls vary with k
Nft(k, contract) ==
    [tokenId |-> k,
     name |-> IF k % 2 = 1 THEN "nft" ELSE "",
     originalUrl |-> IF k % 3 = 1 THEN "original" ELSE "",
     thumbnailUrl |-> IF k % 3 = 0 THEN "" ELSE "thumbnail",
     contract |-> contract]

\* a settled promise
Rejected == [status |-> "rejected"]

Fulfilled(v) == [status |-> "fulfilled", value |-> v]

\* answers of getNftsForContract: a page of 0, 1 or MaxNfts NFTs
CollectionOutcomes ==
    { Rejected, Fulfilled([nfts |-> <<>>]) }
    \cup { Fulfilled([nfts |-> [k \in 1..n |-> Nft(k, c)]]) :
             n \in {1, MaxNfts}, c \in Contracts }

\* answers of getOwnersForContract
OwnersOutcomes ==
    { Rejected, Fulfilled([owners |-> <<>>]),
      Fulfilled([owners |-> <<"0xO1", "0xO2">>]) }

\* a marketplace entry of getFloorPrice: missing, an error entry, or a price
NoMarketplace == [present |-> FALSE, hasError |-> FALSE, floorPrice |-> 0,
                  priceCurrency |-> "", collectionUrl |-> "",
                  retrievedAt |-> ""]

MarketplaceError == [NoMarketplace EXCEPT !.present = TRUE, !.hasError = TRUE]

MarketplacePrice(p) ==
    [present |-> TRUE, hasError |-> FALSE, floorPrice |-> p,
     priceCurrency |-> "ETH", collectionUrl |-> "https://market",
     retrievedAt |-> "2025"]

\* answers of getFloorPrice
FloorPriceOutcomes ==
    { Rejected,
      Fulfilled([openSea |-> MarketplacePrice(3), looksRare |-> MarketplaceError]),
      Fulfilled([openSea |-> NoMarketplace, looksRare |-> MarketplacePrice(0)]) }

CollectionEnvs ==
    { [collection |-> c, owners |-> o, floorPrice |-> f] :
        c \in CollectionOutcomes, o \in OwnersOutcomes,
        f \in FloorPriceOutcomes }

SubRequests == {"getNftsForContract", "getOwnersForContract", "getFloorPrice"}

\* the three requests of the Promise.allSettled array, in its order
SubRequestCalls ==
    <<[fn |-> "getNftsForContract", arg |-> 0],
      [fn |-> "getOwnersForContract", arg |-> 0],
      [fn |-> "getFloorPrice", arg |-> 0]>>

\* lines 32-42: the output object before the sub-requests
CollectionAnalytics(address, now) ==
    [kind |-> "collectionAnalytics",
     contractAddress |-> address,
     timestamp |-> now,
     name |-> Null,
     symbol |-> Null,
     totalSupply |-> Null,
     ownerCount |-> Null,
     contractType |-> Null,
     sampleNfts |-> <<>>,
     floorPrice |-> Null]

\* lines 71-75: a sample NFT of the output
SampleNft(nft) ==
    [tokenId |-> nft.tokenId,
     name |-> StringOrNull(nft.name),
     imageUrl |-> IF nft.originalUrl # "" THEN Some(nft.originalUrl)
                  ELSE StringOrNull(nft.thumbnailUrl)]

\* lines 56-76: the collection request's part of the output
ProcessCollection(analytics, collectionResult) ==
    IF /\ collectionResult.status = "fulfilled"
       /\ Len(collectionResult.value.nfts) > 0
    THEN LET nfts == collectionResult.value.nfts
             sampleNft == nfts[1]
         IN  [analytics EXCEPT
                !.name = StringOrNull(sampleNft.contract.name),
                !.symbol = StringOrNull(sampleNft.contract.symbol),
                !.totalSupply =
                    IF sampleNft.contract.totalSupply # ""
                    THEN Some(ParseInt(sampleNft.contract.totalSupply))
                    ELSE Null,
                !.contractType = StringOrNull(sampleNft.contract.tokenType),
                !.sampleNfts = [k \in 1..Min(5, Len(nfts)) |->
                                   SampleNft(nfts[k])]]
    ELSE analytics

\* lines 79-81: the owners request's part of the output
ProcessOwners(analytics, ownersResult) ==
    IF ownersResult.status = "fulfilled"
    THEN [analytics EXCEPT !.ownerCount = Some(Len(ownersResult.value.owners))]
    ELSE analytics

\* lines 88-105: one marketplace of the floor price
FloorMarketplace(m) ==
    IF m.present /\ ~m.hasError
    THEN Some([floorPrice |-> NumberOrNull(m.floorPrice),
               priceCurrency |-> StringOrNull(m.priceCurrency),
               collectionUrl |-> StringOrNull(m.collectionUrl),
               retrievedAt |-> StringOrNull(m.retrievedAt)])
    ELSE Null

\* lines 84-107: the floor-price request's part of the output
ProcessFloorPrice(analytics, floorPriceResult) ==
    IF floorPriceResult.status = "fulfilled"
    THEN [analytics EXCEPT
            !.floorPrice =
                Some([openSea |-> FloorMarketplace(floorPriceResult.value.openSea),
                      looksRare |->
                          FloorMarketplace(floorPriceResult.value.looksRare)])]
    ELSE analytics

\* Promise.all in place of Promise.allSettled: one rejection and no result
\* is available
SettledResultFailFast(e, request) ==
    IF Rejected \in {e.collection, e.owners, e.floorPrice}
    THEN Rejected
    ELSE CASE request = "getNftsForContract" -> e.collection
           [] request = "getOwnersForContract" -> e.owners
           [] request = "getFloorPrice" -> e.floorPrice

\* the result Promise.allSettled holds for a sub-request
SettledResult(e, request) ==
    CASE request = "getNftsForContract" -> e.collection
      [] request = "getOwnersForContract" -> e.owners
      [] request = "getFloorPrice" -> e.floorPrice

\* Promise.race in place of Promise.allSettled: resolves with the first
\* promise that settles
FirstSettled(settled) == Len(settled) >= 1

\* Promise.allSettled resolves once every promise of its array has settled
AllSettled(settled) == \A r \in SubRequests : \E k \in 1..Len(settled) : settled[k] = r

\* lines 28-53: the handler starts, builds the output object and sends the
\* three sub-requests, all three before it awaits
CollectionInvoke ==
    /\ tool = "collection"
    /\ pc = "idle"
    /\ \E a \in RequestAddresses : input' = [address |-> a]
    /\ co' = [analytics |-> CollectionAnalytics(input'.address, clock),
              settled |-> <<>>,
              previous |-> IF "settled" \in DOMAIN co THEN co.settled
                           ELSE <<>>]
    /\ calls' = SubRequestCalls
    /\ pc' = "allSettled"
    /\ UNCHANGED <<tool, env, clock, run, response, prevResponse,
                   cr, tp, cache, mw, cs>>

\* one of the sub-requests settles (fulfils or rejects), in any order
CollectionSubRequestSettles ==
    /\ tool \in {"collection", "cached"}
    /\ pc = "allSettled"
    /\ \E r \in SubRequests :
          /\ \A k \in 1..Len(co.settled) : co.settled[k] # r
          /\ co' = [co EXCEPT !.settled = Append(@, r)]
    /\ UNCHANGED <<tool, pc, env, input, clock, run, response, prevResponse,
                   calls, cr, tp, cache, mw, cs>>

\* lines 45-116: the await of Promise.allSettled resumes; the three results
\* are processed in the order of the array and the output is returned
CollectionRespond ==
    /\ tool = "collection"
    /\ pc = "allSettled"
    /\ AllSettled(co.settled)
    /\ LET analytics ==
              ProcessFloorPrice(
                  ProcessOwners(
                      ProcessCollection(co.analytics,
                          SettledResult(env, "getNftsForContract")),
                      SettledResult(env, "getOwnersForContract")),
                  SettledResult(env, "getFloorPrice"))
       IN  /\ co' = [co EXCEPT !.analytics = analytics]
           /\ response' = analytics
    /\ pc' = "done"
    /\ UNCHANGED <<tool, env, input, clock, run, prevResponse, calls,
                   cr, tp, cache, mw, cs>>

InitCollection ==
    /\ tool = "collection"
    /\ pc = "idle"
    /\ env \in CollectionEnvs
    /\ input = [address |-> "none"]
    /\ clock = 1
    /\ run = 1
    /\ response = NoResponse
    /\ prevResponse = NoResponse
    /\ calls = <<>>
    /\ cr = NoLocals
    /\ tp = NoLocals
    /\ co = NoLocals
    /\ cs = NoLocals
    /\ cache = <<>>
    /\ mw = NoLocals

NextCollection ==
    \/ CollectionInvoke
    \/ CollectionSubRequestSettles
    \/ CollectionRespond
    \/ Reinvoke

SpecCollection == InitCollection /\ [][NextCollection]_vars

\* ------------------------------------------------------------------------
\* getCollectionAnalytics (cached version)
\* ------------------------------------------------------------------------

\* metadata.annotations.cacheTTL, in seconds
cacheTTL == 60 * 15

\* config.chainId: Shape mainnet or Shape Sepolia
ChainIds == {360, 11011}

\* request addresses: two spellings of one address, and another address
CachedAddresses == {"0xAB", "0xab", "0xCD"}

\* String.prototype.toLowerCase on the request addresses
ToLowerCase(a) == CASE a = "0xAB" -> "0xab"
                    [] a = "0xab" -> "0xab"
                    [] a = "0xCD" -> "0xcd"

\* a key that keeps the request's spelling of the address
CacheKeyCaseSensitive(chainId, contractAddress) ==
    [prefix |-> "mcp:collectionAnalytics", chainId |-> chainId,
     address |-> contractAddress]

\* line 38: the template string of the cache key
CacheKey(chainId, contractAddress) ==
    [prefix |-> "mcp:collectionAnalytics", chainId |-> chainId,
     address |-> ToLowerCase(contractAddress)]

CacheKeys == { CacheKey(c, a) : c \in ChainIds, a \in CachedAddresses }

\* JSON.stringify of a response and JSON.parse of the string: the response
\* holds only strings, so parsing gives back an equal object
Stringify(r) == [json |-> r]

Parse(str) == str.json

NoEntry == [present |-> FALSE]

EmptyCache == [k \in CacheKeys |-> NoEntry]

\* getCached of utils/cache: the stored string, or null when the key has no
\* entry or no cache store is configured
GetCached(e, store, key) ==
    IF e.redis /\ store[key].present THEN Some(store[key].value) ELSE Null

\* setCached of utils/cache: stores the string with a time to live; does
\* nothing when no cache store is configured
SetCached(e, store, key, value, ttl) ==
    IF e.redis
    THEN [store EXCEPT ![key] = [present |-> TRUE, value |-> value,
                                 ttl |-> ttl]]
    ELSE store

\* a response stored earlier (by this server or another one) under key
StoredEarlier(key) ==
    Stringify([CollectionAnalytics(key.address, 0) EXCEPT
                  !.ownerCount = Some(1)])

\* upstream states: the chain id of the deployment, whether a cache store is
\* configured and whether its get or its set throws, and the outcomes of the
\* three sub-requests
CachedEnvs ==
    { [chainId |-> c, redis |-> m.redis, getThrows |-> m.getThrows,
       setThrows |-> m.setThrows,
       collection |-> col, owners |-> o, floorPrice |-> f] :
        c \in ChainIds,
        m \in { [redis |-> FALSE, getThrows |-> FALSE, setThrows |-> FALSE],
                [redis |-> TRUE, getThrows |-> FALSE, setThrows |-> FALSE],
                [redis |-> TRUE, getThrows |-> TRUE, setThrows |-> FALSE],
                [redis |-> TRUE, getThrows |-> FALSE, setThrows |-> TRUE] },
        col \in { Rejected,
                  Fulfilled([nfts |-> <<Nft(1, CHOOSE x \in Contracts :
                                                   x.name = "Shapes")>>]) },
        o \in { Rejected, Fulfilled([owners |-> <<"0xO1", "0xO2">>]) },
        f \in { Rejected,
                Fulfilled([openSea |-> MarketplacePrice(3),
                           looksRare |-> MarketplaceError]) } }

\* the cache store when the server starts: empty, or holding one entry
InitialCaches ==
    { EmptyCache }
    \cup { [EmptyCache EXCEPT ![k] = [present |-> TRUE,
                                      value |-> StoredEarlier(k),
                                      ttl |-> cacheTTL]] :
             k \in { CacheKey(c, "0xab") : c \in ChainIds } }

\* an exception that leaves the handler
Exception == [kind |-> "exception"]

\* a lookup whose result is never used
CacheHitIgnored(cached) == FALSE

\* line 41: if (cached)
CacheHit(cached) == ~cached.isNull

\* lines 35-39: the handler starts, computes the key and sends getCached
CachedInvoke ==
    /\ tool = "cached"
    /\ pc = "idle"
    /\ \E a \in CachedAddresses :
          /\ input' = [address |-> a]
          /\ co' = [cacheKey |-> CacheKey(env.chainId, a)]
          /\ calls' = <<[fn |-> "getCached",
                         arg |-> CacheKey(env.chainId, a)]>>
    /\ pc' = "getCached"
    /\ UNCHANGED <<tool, env, clock, run, response, prevResponse,
                   cr, tp, cache, mw, cs>>

\* lines 39-65: getCached settles.  It is awaited outside the try block, so
\* an exception leaves the handler.  A stored string is parsed and returned;
\* on a miss the output object is built and the three sub-requests are sent
CachedLookupSettles ==
    /\ tool = "cached"
    /\ pc = "getCached"
    /\ LET cached == GetCached(env, cache, co.cacheKey)
       IN  IF env.getThrows
           THEN /\ response' = Exception
                /\ pc' = "done"
                /\ co' = NoLocals
                /\ UNCHANGED calls
           ELSE IF CacheHit(cached)
           THEN /\ response' = Parse(cached.value)
                /\ pc' = "done"
                /\ co' = NoLocals
                /\ UNCHANGED calls
           ELSE /\ co' = [cacheKey |-> co.cacheKey,
                          analytics |->
                              CollectionAnalytics(input.address, clock),
                          settled |-> <<>>]
                /\ calls' = calls \o SubRequestCalls
                /\ pc' = "allSettled"
                /\ UNCHANGED response
    /\ UNCHANGED <<tool, env, input, clock, run, prevResponse, cr, tp, cache, mw,
                   cs>>

\* lines 87-89: the floor price is stored as the API answered it
CachedProcessFloorPrice(analytics, floorPriceResult) ==
    IF floorPriceResult.status = "fulfilled"
    THEN [analytics EXCEPT !.floorPrice = Some(floorPriceResult.value)]
    ELSE analytics

\* a write that gives the entry no time to live
SetCachedCallWithoutTtl(cacheKey) ==
    [fn |-> "setCached", arg |-> cacheKey, ttl |-> 0]

\* line 100: the setCached request, with the time to live of the metadata
SetCachedCall(cacheKey) ==
    [fn |-> "setCached", arg |-> cacheKey, ttl |-> cacheTTL]

\* lines 58-100: the await of Promise.allSettled resumes; the results are
\* processed, the response is built and setCached is sent
CachedProcess ==
    /\ tool = "cached"
    /\ pc = "allSettled"
    /\ AllSettled(co.settled)
    /\ LET analytics ==
              CachedProcessFloorPrice(
                  ProcessOwners(
                      ProcessCollection(co.analytics,
                          SettledResult(env, "getNftsForContract")),
                      SettledResult(env, "getOwnersForContract")),
                  SettledResult(env, "getFloorPrice"))
       IN  /\ co' = [cacheKey |-> co.cacheKey, response |-> analytics]
           /\ calls' = Append(calls, SetCachedCall(co.cacheKey))
    /\ pc' = "setCached"
    /\ UNCHANGED <<tool, env, input, clock, run, response, prevResponse,
                   cr, tp, cache, mw, cs>>

\* lines 100-121: setCached settles; the response is returned, or the
\* exception of setCached reaches the catch block
CachedWriteSettles ==
    /\ tool = "cached"
    /\ pc = "setCached"
    /\ IF env.setThrows
       THEN /\ response' = ErrorOutput(CollectionErrorMessage,
                                       input.address, clock)
            /\ UNCHANGED cache
       ELSE /\ response' = co.response
            /\ cache' = SetCached(env, cache, calls[Len(calls)].arg,
                                  Stringify(co.response),
                                  calls[Len(calls)].ttl)
    /\ co' = NoLocals
    /\ pc' = "done"
    /\ UNCHANGED <<tool, env, input, clock, run, prevResponse, calls, cr, tp,
                   mw, cs>>

InitCached ==
    /\ tool = "cached"
    /\ pc = "idle"
    /\ env \in CachedEnvs
    /\ input = [address |-> "none"]
    /\ clock = 1
    /\ run = 1
    /\ response = NoResponse
    /\ prevResponse = NoResponse
    /\ calls = <<>>
    /\ cr = NoLocals
    /\ tp = NoLocals
    /\ co = NoLocals
    /\ cs = NoLocals
    /\ cache \in InitialCaches
    /\ mw = NoLocals

NextCached ==
    \/ CachedInvoke
    \/ CachedLookupSettles
    \/ CollectionSubRequestSettles
    \/ CachedProcess
    \/ CachedWriteSettles
    \/ Reinvoke

SpecCached == InitCached /\ [][NextCached]_vars

\* ------------------------------------------------------------------------
\* getTopShapeCreators (version with a limit parameter)
\* ------------------------------------------------------------------------

\* a JavaScript number that is an integer or an integer and a half, held as
\* twice its value
Num(i) == 2 * i

NumAndHalf(i) == 2 * i + 1

\* Math.max and Math.min of two such numbers
MathMax(x, y) == IF x < y THEN y ELSE x

MathMin(x, y) == IF x < y THEN x ELSE y

\* ToIntegerOrInfinity, applied by Array.prototype.slice to its arguments:
\* the fraction is dropped
ToInteger(x) == IF x >= 0 THEN x \div 2 ELSE -((-x) \div 2)

\* the limit of a request: absent, or a number
Undefined == [defined |-> FALSE]

Limits ==
    { Undefined }
    \cup { [defined |-> TRUE, value |-> v] :
             v \in { Num(-3), Num(0), NumAndHalf(0), Num(1), NumAndHalf(2),
                     Num(3), Num(100), NumAndHalf(100), Num(250) } }

\* lines 14 and 31: the default of the parameter
LimitOrDefault(limit) == IF limit.defined THEN limit.value ELSE Num(50)

\* a limit used as the request gives it
FinalLimitUnclamped(limit) == limit

\* line 40: Math.min(Math.max(1, limit), 100)
FinalLimit(limit) == MathMin(MathMax(Num(1), limit), Num(100))

\* upstream states: totalSupply rejects, or it answers `supply`; token t
\* belongs to owner ((t - 1) % ownerMod) + 1; ownerOf rejects for the tokens
\* in ownerFailing and the reads in readFailing reject
TopLimitEnvs ==
    { [supplyFails |-> TRUE, supply |-> 0, ownerMod |-> 1,
       ownerFailing |-> {}, readFailing |-> {}] }
    \cup
    { [supplyFails |-> FALSE, supply |-> n, ownerMod |-> m,
       ownerFailing |-> of, readFailing |-> rf] :
        n \in {0, 1, 3, MaxSupply},
        m \in {1, 2, MaxSupply},
        of \in { {}, {1}, 1..MaxSupply },
        rf \in { {}, {<<2, "getTokenGasbackBalance">>} } }

\* lines 115-128: the creators in the output format, sorted by earnings,
\* and the first finalLimit of them
AllCreators(stats, finalLimit) ==
    LET entries == [k \in 1..Len(stats) |-> TopEntry(stats[k])]
        sorted == SortByEarned(entries)
        end == ToInteger(finalLimit)
    IN  SubSeq(sorted, 1, IF end < 0 THEN MathMax(Len(sorted) + end, 0)
                          ELSE MathMin(end, Len(sorted)))

\* lines 30-41: the handler starts, clamps the limit and sends totalSupply
TopLimitInvoke ==
    /\ tool = "topLimit"
    /\ pc = "idle"
    /\ \E l \in (IF run = 1 THEN Limits ELSE {input.limit}) :
          /\ input' = [address |-> "none", limit |-> l]
          /\ tp' = [finalLimit |-> FinalLimit(LimitOrDefault(l))]
    /\ calls' = <<[fn |-> "totalSupply", arg |-> 0]>>
    /\ pc' = "totalSupply"
    /\ UNCHANGED <<tool, env, clock, run, response, prevResponse,
                   cr, co, cache, mw, cs>>

\* lines 141-158: the catch block of the handler
TopLimitCatch ==
    /\ response' = ErrorOutput(TopErrorMessage, "none", clock)
    /\ pc' = "done"

\* lines 74 and 114-140: the loop goes on to the next token id, or after the
\* last one the creators are ranked and the response is returned
TopLimitContinue(locals) ==
    IF locals.tokenId < locals.totalTokens
    THEN /\ tp' = [locals EXCEPT !.tokenId = @ + 1]
         /\ calls' = Append(calls, [fn |-> "ownerOf",
                                    arg |-> locals.tokenId + 1])
         /\ pc' = "ownerOf"
         /\ UNCHANGED response
    ELSE /\ tp' = locals
         /\ response' = [locals.result EXCEPT
                           !.totalCreatorsAnalyzed = Len(locals.creatorStats),
                           !.topCreators = AllCreators(locals.creatorStats,
                                                       locals.finalLimit)]
         /\ pc' = "done"
         /\ UNCHANGED calls

\* lines 41-78: totalSupply settles; the empty result is returned for a
\* supply of 0, otherwise the loop starts with ownerOf of token id 1
TopLimitSupplySettles ==
    /\ tool = "topLimit"
    /\ pc = "totalSupply"
    /\ IF env.supplyFails
       THEN /\ TopLimitCatch
            /\ UNCHANGED <<tp, calls>>
       ELSE LET locals == [finalLimit |-> tp.finalLimit,
                           totalTokens |-> env.supply,
                           result |-> TopResult(clock),
                           creatorStats |-> <<>>,
                           tokenId |-> 1]
            IN  IF env.supply = 0
                THEN /\ tp' = locals
                     /\ response' = locals.result
                     /\ pc' = "done"
                     /\ UNCHANGED calls
                ELSE /\ tp' = locals
                     /\ calls' = Append(calls, [fn |-> "ownerOf", arg |-> 1])
                     /\ pc' = "ownerOf"
                     /\ UNCHANGED response
    /\ UNCHANGED <<tool, env, input, clock, run, prevResponse, cr, co, cache, mw,
                   cs>>

\* lines 76-91 and 108-111: ownerOf of the current token settles; a
\* rejection skips the token, an owner sends the three reads of the token
TopLimitOwnerSettles ==
    /\ tool = "topLimit"
    /\ pc = "ownerOf"
    /\ IF tp.tokenId \in env.ownerFailing
       THEN TopLimitContinue(tp)
       ELSE /\ calls' = calls \o CreatorTokenCalls(tp.tokenId)
            /\ pc' = "tokenReads"
            /\ UNCHANGED <<tp, response>>
    /\ UNCHANGED <<tool, env, input, clock, run, prevResponse, cr, co, cache, mw,
                   cs>>

\* lines 80-140: Promise.all of the three reads settles; a rejection skips
\* the token, otherwise the token is added to its owner's entry
TopLimitReadsSettle ==
    /\ tool = "topLimit"
    /\ pc = "tokenReads"
    /\ LET t == tp.tokenId
           rejected == \E f \in TokenReads : <<t, f>> \in env.readFailing
           tokenOwner == ((t - 1) % env.ownerMod) + 1
           added == AddToken(tp.creatorStats, tokenOwner,
                             TopProfileOf(t).total, TopProfileOf(t).balance,
                             TopProfileOf(t).contracts)
       IN  IF rejected
           THEN TopLimitContinue(tp)
           ELSE TopLimitContinue([tp EXCEPT !.creatorStats = added])
    /\ UNCHANGED <<tool, env, input, clock, run, prevResponse, cr, co, cache, mw,
                   cs>>

InitTopLimit ==
    /\ tool = "topLimit"
    /\ pc = "idle"
    /\ env \in TopLimitEnvs
    /\ input = [address |-> "none", limit |-> Undefined]
    /\ clock = 1
    /\ run = 1
    /\ response = NoResponse
    /\ prevResponse = NoResponse
    /\ calls = <<>>
    /\ cr = NoLocals
    /\ tp = NoLocals
    /\ co = NoLocals
    /\ cs = NoLocals
    /\ cache = <<>>
    /\ mw = NoLocals

NextTopLimit ==
    \/ TopLimitInvoke
    \/ TopLimitSupplySettles
    \/ TopLimitOwnerSettles
    \/ TopLimitReadsSettle
    \/ Reinvoke

SpecTopLimit == InitTopLimit /\ [][NextTopLimit]_vars

\* ------------------------------------------------------------------------
\* The rate-limiting middleware in front of tool dispatch
\* ------------------------------------------------------------------------

\* limiter options: the length of a window in milliseconds, and the number
\* of requests of one IP the limiter admits in a window
windowMs == 15 * 60 * 1000

max == 100

\* the clients: one that sends many requests and one that sends a few
IPs == {"busy", "quiet"}

\* requests an IP sends in one window of the limiter
Budget(ip) == IF ip = "busy" THEN max + MaxOverLimit ELSE MaxQuiet

\* the requests the server handles at the same time
Slots == 1..MaxInFlight

\* process.env.NODE_ENV, and whether the limiter's store can fail
MiddlewareEnvs ==
    { [nodeEnv |-> n, storeFails |-> f] :
        n \in {"production", "development"}, f \in BOOLEAN }

\* no request in a slot
NoRequest == [state |-> "free"]

\* a request in flight: the state of the promise the middleware returned
\* ("limiter" and "refused" are pending), the times next() was called for
\* it, and the status of the HTTP response
Request(ip, state, nextCalls, statusCode) ==
    [state |-> state, ip |-> ip, nextCalls |-> nextCalls,
     statusCode |-> statusCode]

\* the limiter's store when the server starts, and no request in flight
NoTraffic ==
    [hits |-> [ip \in IPs |-> 0],
     admitted |-> [ip \in IPs |-> 0],
     reqs |-> [s \in Slots |-> NoRequest]]

\* the requests of ip the limiter has not counted yet
Uncounted(ip) ==
    Cardinality({ s \in Slots : /\ mw.reqs[s].state = "limiter"
                                /\ mw.reqs[s].ip = ip })

\* a limiter that admits a request the IP had no room for
AdmitsOverLimit(totalHits) == TRUE

\* the limiter's decision: the request is admitted while the hits of its
\* IP in the window, this request included, do not exceed max
Admits(totalHits) == totalHits <= max

\* a middleware that rate limits whatever NODE_ENV is
InProductionAlways(e) == TRUE

\* line 17: the test of process.env.NODE_ENV
InProduction(e) == e.nodeEnv = "production"

\* lines 15-22: the middleware runs for a request.  Outside production it
\* returns next(); in production it returns a promise and hands the request
\* to the limiter
MiddlewareRequest ==
    /\ tool = "middleware"
    /\ \E s \in Slots, ip \in IPs :
          /\ mw.reqs[s].state = "free"
          /\ IF ~InProduction(env)
             THEN mw' = [mw EXCEPT !.reqs[s] = Request(ip, "resolved", 1, 200)]
             ELSE /\ mw.hits[ip] + Uncounted(ip) < Budget(ip)
                  /\ mw' = [mw EXCEPT
                               !.reqs[s] = Request(ip, "limiter", 0, 200)]
    /\ UNCHANGED <<tool, pc, env, input, clock, run, response, prevResponse,
                   calls, cr, tp, co, cache, cs>>

\* lines 5-13 and 22-43: the limiter counts the request.  When its store
\* fails it calls the callback with the error and the promise is rejected;
\* when the IP is over the limit it answers 429 with the message and never
\* calls the callback; otherwise it calls the callback, which logs the
\* request and resolves the promise with next()
LimiterSettles ==
    /\ tool = "middleware"
    /\ \E s \in Slots, err \in {FALSE, env.storeFails} :
          /\ mw.reqs[s].state = "limiter"
          /\ LET ip == mw.reqs[s].ip
                 totalHits == mw.hits[ip] + 1
             IN  IF err
                 THEN mw' = [mw EXCEPT
                                !.reqs[s] = Request(ip, "rejected", 0, 200)]
                 ELSE IF Admits(totalHits)
                 THEN mw' = [mw EXCEPT
                                !.hits[ip] = totalHits,
                                !.admitted[ip] = @ + 1,
                                !.reqs[s] = Request(ip, "resolved", 1, 200)]
                 ELSE mw' = [mw EXCEPT
                                !.hits[ip] = totalHits,
                                !.reqs[s] = Request(ip, "refused", 0, 429)]
    /\ UNCHANGED <<tool, pc, env, input, clock, run, response, prevResponse,
                   calls, cr, tp, co, cache, cs>>

\* line 6: windowMs after the first counted request of an IP its window
\* ends and its hits start again from 0
WindowExpires ==
    /\ tool = "middleware"
    /\ \E ip \in IPs :
          /\ mw.hits[ip] > 0
          /\ mw' = [mw EXCEPT !.hits[ip] = 0, !.admitted[ip] = 0]
    /\ UNCHANGED <<tool, pc, env, input, clock, run, response, prevResponse,
                   calls, cr, tp, co, cache, cs>>

\* the HTTP exchange of a request is over: its response has been sent, by
\* the tool, by the error handler or by the limiter
RequestEnds ==
    /\ tool = "middleware"
    /\ \E s \in Slots :
          /\ mw.reqs[s].state \in {"resolved", "rejected", "refused"}
          /\ mw' = [mw EXCEPT !.reqs[s] = NoRequest]
    /\ UNCHANGED <<tool, pc, env, input, clock, run, response, prevResponse,
                   calls, cr, tp, co, cache, cs>>

InitMiddleware ==
    /\ tool = "middleware"
    /\ pc = "idle"
    /\ env \in MiddlewareEnvs
    /\ input = [address |-> "none"]
    /\ clock = 1
    /\ run = 1
    /\ response = NoResponse
    /\ prevResponse = NoResponse
    /\ calls = <<>>
    /\ cr = NoLocals
    /\ tp = NoLocals
    /\ co = NoLocals
    /\ cs = NoLocals
    /\ cache = <<>>
    /\ mw = NoTraffic

NextMiddleware ==
    \/ MiddlewareRequest
    \/ LimiterSettles
    \/ WindowExpires
    \/ RequestEnds

SpecMiddleware == InitMiddleware /\ [][NextMiddleware]_vars

\* the same, with the limiter finishing the work it has started: every
\* request handed to the limiter is counted sooner or later.  Nothing makes
\* a client send a request, a window end or a connection close.
SpecMiddlewareLive ==
    /\ InitMiddleware
    /\ [][NextMiddleware]_vars
    /\ \A s \in Slots :
          WF_vars(LimiterSettles /\ mw.reqs[s].state = "limiter"
                                 /\ mw'.reqs[s] # mw.reqs[s])

\* ------------------------------------------------------------------------
\* getChainStatus
\* ------------------------------------------------------------------------

\* upstream states: the chain the server is configured for, which of the
\* reads reject (getBlock latest, getGasPrice, getBlockNumber and getBlock
\* of the three blocks before the latest), the gas price in wei and the
\* timestamps of the latest block and of the three before it.  The version
\* with toFixed shows the gas price with wei, gwei and eth, the version with
\* formatUnits shows it with formatGwei and formatEther.
ChainStatusEnvs ==
    { [version |-> v, chainId |-> c, latestFails |-> l, gasPriceFails |-> g,
       blockNumberFails |-> n, recentFails |-> r, gasPrice |-> p,
       number |-> 1000, timestamp |-> 1008, timestamps |-> t] :
        v \in {"toFixed", "formatUnits"}, c \in ChainIds,
        l \in BOOLEAN, g \in BOOLEAN, n \in BOOLEAN,
        r \in SUBSET (1..3), p \in {0, 1234567, 1500000000},
        t \in { <<1006, 1004, 1002>>, <<1007, 1004, 1003>> } }

\* bigint toString: the decimal digits of a value, most significant first
RECURSIVE Digits(_)
Digits(n) == IF n < 10 THEN <<n>> ELSE Append(Digits(n \div 10), n % 10)

\* String padStart with '0'
PadStart(display, length) ==
    LET pad == length - Len(display)
    IN  IF pad <= 0 THEN display
        ELSE [i \in 1..length |-> IF i <= pad THEN 0 ELSE display[i - pad]]

\* viem's formatUnits, which formatGwei (9 decimals) and formatEther (18
\* decimals) call: the digits before the point, '0' when there are none, and
\* the digits after it without the trailing zeros
FormatUnits(value, decimals) ==
    LET display == PadStart(Digits(value), decimals)
        integer == SubSeq(display, 1, Len(display) - decimals)
        fraction == SubSeq(display, Len(display) - decimals + 1, Len(display))
        nonZero == { i \in 1..decimals : fraction[i] # 0 }
        last == CHOOSE i \in nonZero : \A j \in nonZero : j <= i
    IN  [integer |-> IF integer = <<>> THEN <<0>> ELSE integer,
         fraction |-> IF nonZero = {} THEN <<>> ELSE SubSeq(fraction, 1, last)]

\* (Number(wei) / 10^unit).toFixed(places): the value rounded to so many
\* places, all of them shown.  The gas prices of ChainStatusEnvs are no
\* ties, for which the double decides the direction.
ToFixed(wei, unit, places) ==
    LET divisor == 10^(unit - places)
        rounded == (wei + (divisor \div 2)) \div divisor
        display == PadStart(Digits(rounded), places + 1)
    IN  [integer |-> SubSeq(display, 1, Len(display) - places),
         fraction |-> SubSeq(display, Len(display) - places + 1, Len(display))]

\* the gas price is shown only when the chain was found healthy
ProcessGasPriceIfHealthy(result, gasPrice, version) ==
    IF ~result.rpcHealthy \/ gasPrice.status # "fulfilled" THEN result
    ELSE [result EXCEPT !.gasPrice =
            Some([gwei |-> FormatUnits(gasPrice.value, 9),
                  eth |-> FormatUnits(gasPrice.value, 18)])]

\* part_005 lines 74-81, part_004 lines 81-91: a fulfilled getGasPrice is
\* shown, whatever became of the latest block
ProcessGasPrice(result, gasPrice, version) ==
    IF gasPrice.status # "fulfilled" THEN result
    ELSE IF version = "toFixed"
    THEN [result EXCEPT !.gasPrice =
            Some([wei |-> Digits(gasPrice.value),
                  gwei |-> ToFixed(gasPrice.value, 9, 4),
                  eth |-> ToFixed(gasPrice.value, 18, 12)])]
    ELSE [result EXCEPT !.gasPrice =
            Some([gwei |-> FormatUnits(gasPrice.value, 9),
                  eth |-> FormatUnits(gasPrice.value, 18)])]

\* lines 55-58: the values of the fulfilled reads, in the order of the reads
ValidBlocks(recentBlocks) ==
    LET fulfilled == SelectSeq(recentBlocks,
                               LAMBDA b : b.status = "fulfilled")
    IN  [i \in 1..Len(fulfilled) |-> fulfilled[i].value]

\* lines 60-68: with two valid blocks or more, the mean of the differences
\* of the timestamps of neighbours; a number, held as twice its value
AvgBlockTime(result, validBlocks) ==
    IF Len(validBlocks) < 2 THEN result
    ELSE LET timeDiffs == [i \in 1..(Len(validBlocks) - 1) |->
                             validBlocks[i].timestamp
                                 - validBlocks[i + 1].timestamp]
             sum == IF Len(timeDiffs) = 1 THEN timeDiffs[1]
                    ELSE timeDiffs[1] + timeDiffs[2]
         IN  [result EXCEPT !.avgBlockTime =
                                Some(Num(sum) \div Len(timeDiffs))]

\* lines 23-41: the handler starts with an unhealthy result without gas
\* price and block time, and sends the three reads of Promise.allSettled
ChainStatusInvoke ==
    /\ tool = "chainStatus"
    /\ pc = "idle"
    /\ cs' = [result |->
                [kind |-> "chainStatus",
                 timestamp |-> clock,
                 network |-> IF env.chainId = 360 THEN "shape-mainnet"
                             ELSE "shape-sepolia",
                 chainId |-> env.chainId,
                 rpcHealthy |-> FALSE,
                 gasPrice |-> Null,
                 avgBlockTime |-> Null]]
    /\ calls' = <<[fn |-> "getBlock", arg |-> 0],
                  [fn |-> "getGasPrice", arg |-> 0],
                  [fn |-> "getBlockNumber", arg |-> 0]>>
    /\ pc' = "allSettled"
    /\ UNCHANGED <<tool, env, input, clock, run, response, prevResponse,
                   cr, tp, co, cache, mw>>

\* lines 37-53 and 74-94: the three reads have settled.  rpcHealthy tells
\* whether the latest block was read; with the block, getBlock is sent for
\* the three blocks before it; without it, the gas price is processed and the
\* result returned
ChainStatusSettles ==
    /\ tool = "chainStatus"
    /\ pc = "allSettled"
    /\ LET latestBlock == IF env.latestFails THEN Rejected
                          ELSE Fulfilled([number |-> env.number,
                                          timestamp |-> env.timestamp])
           gasPrice == IF env.gasPriceFails THEN Rejected
                       ELSE Fulfilled(env.gasPrice)
           result == [cs.result EXCEPT
                         !.rpcHealthy = latestBlock.status = "fulfilled"]
       IN  IF latestBlock.status = "fulfilled"
           THEN /\ cs' = [result |-> result, gasPrice |-> gasPrice]
                /\ calls' = calls \o
                     [k \in 1..3 |-> [fn |-> "getBlock",
                                      arg |-> latestBlock.value.number - k]]
                /\ pc' = "recentBlocks"
                /\ UNCHANGED response
           ELSE /\ response' = ProcessGasPrice(result, gasPrice, env.version)
                /\ pc' = "done"
                /\ UNCHANGED <<cs, calls>>
    /\ UNCHANGED <<tool, env, input, clock, run, prevResponse,
                   cr, tp, co, cache, mw>>

\* lines 49-94: the reads of the three blocks have settled; the block time
\* and the gas price are processed and the result returned
ChainStatusRecentBlocksSettle ==
    /\ tool = "chainStatus"
    /\ pc = "recentBlocks"
    /\ LET recentBlocks ==
               [k \in 1..3 |->
                   IF k \in env.recentFails THEN Rejected
                   ELSE Fulfilled([number |-> env.number - k,
                                   timestamp |-> env.timestamps[k]])]
           result == AvgBlockTime(cs.result, ValidBlocks(recentBlocks))
       IN  response' = ProcessGasPrice(result, cs.gasPrice, env.version)
    /\ pc' = "done"
    /\ UNCHANGED <<tool, env, input, clock, run, prevResponse, calls,
                   cr, tp, co, cs, cache, mw>>

InitChainStatus ==
    /\ tool = "chainStatus"
    /\ pc = "idle"
    /\ env \in ChainStatusEnvs
    /\ input = [address |-> "none"]
    /\ clock = 1
    /\ run = 1
    /\ response = NoResponse
    /\ prevResponse = NoResponse
    /\ calls = <<>>
    /\ cr = NoLocals
    /\ tp = NoLocals
    /\ co = NoLocals
    /\ cs = NoLocals
    /\ cache = <<>>
    /\ mw = NoLocals

NextChainStatus ==
    \/ ChainStatusInvoke
    \/ ChainStatusSettles
    \/ ChainStatusRecentBlocksSettle
    \/ Reinvoke

SpecChainStatus == InitChainStatus /\ [][NextChainStatus]_vars

\* ------------------------------------------------------------------------
\* The server: a request is dispatched to one of the tools
\* ------------------------------------------------------------------------

NextSimulate ==
    \/ SimulateInvoke
    \/ SimulateGasPriceSettles
    \/ Reinvoke

NextStack ==
    \/ StackInvoke
    \/ StackTokenIdSettles
    \/ StackMedalsSettle
    \/ Reinvoke

Init ==
    \/ InitCreator
    \/ InitTop
    \/ InitSimulate
    \/ InitStack

Next ==
    \/ CreatorInvoke
    \/ CreatorOwnedTokensSettles
    \/ CreatorTokenReadsSettle
    \/ TopInvoke
    \/ TopSupplySettles
    \/ TopOwnerBatchSettles
    \/ TopAnalyticsBatchSettles
    \/ SimulateInvoke
    \/ SimulateGasPriceSettles
    \/ StackInvoke
    \/ StackTokenIdSettles
    \/ StackMedalsSettle
    \/ Reinvoke

Spec == Init /\ [][Next]_vars

\* ------------------------------------------------------------------------
\* Properties
\* ------------------------------------------------------------------------

\* the handler has returned
Done(t) == tool = t /\ pc = "done"

\* the first upstream read of the running tool rejects
FirstReadFails ==
    CASE tool = "creator" -> env.ownedFails
      [] tool = "top" -> env.supplyFails
      [] tool = "simulate" -> env.gasPriceFails
      [] tool = "stack" -> env.stackIdFails
      [] OTHER -> FALSE

\* a tagged error object: error = true, a message and a timestamp
IsErrorObject(r) ==
    /\ r.kind = "error"
    /\ r.error = TRUE
    /\ r.message \in {CreatorErrorMessage, TopErrorMessage,
                      SimulateErrorMessage, StackErrorMessage,
                      CollectionErrorMessage}
    /\ "timestamp" \in DOMAIN r

\* C1: in getShapeCreatorAnalytics, getTopShapeCreators,
\* simulateGasbackEarnings and getStackAchievements, when the first upstream
\* read (getOwnedTokens, totalSupply, getGasPrice, addressToTokenId) throws,
\* the handler returns normally and its response is the tagged error object
C1_FirstReadFailureIsErrorObject ==
    (pc = "done" /\ FirstReadFails) =>
        /\ response # Exception
        /\ IsErrorObject(response)
        /\ response.timestamp = clock

C1_Witness ==
    /\ Done("stack")
    /\ env.stackIdFails
    /\ response.kind = "error"

\* the part of the output the collection request fills in is at its initial
\* value
CollectionFieldsInitial(r) ==
    /\ r.name = Null
    /\ r.symbol = Null
    /\ r.totalSupply = Null
    /\ r.contractType = Null
    /\ r.sampleNfts = <<>>

\* the part of the output the collection request fills in holds what the
\* page of NFTs says: the metadata of the first NFT's contract (null for a
\* field the contract lacks) and the first five NFTs
CollectionFieldsFilled(r, nfts) ==
    /\ r.name.isNull <=> nfts[1].contract.name = ""
    /\ ~r.name.isNull => r.name.value = nfts[1].contract.name
    /\ r.symbol.isNull <=> nfts[1].contract.symbol = ""
    /\ ~r.symbol.isNull => r.symbol.value = nfts[1].contract.symbol
    /\ r.totalSupply.isNull <=> nfts[1].contract.totalSupply = ""
    /\ nfts[1].contract.totalSupply = "1000" => r.totalSupply = Some(1000)
    /\ nfts[1].contract.totalSupply = "0" => r.totalSupply = Some(0)
    /\ r.contractType.isNull <=> nfts[1].contract.tokenType = ""
    /\ ~r.contractType.isNull => r.contractType.value = nfts[1].contract.tokenType
    /\ Len(r.sampleNfts) = (IF Len(nfts) < 5 THEN Len(nfts) ELSE 5)
    /\ \A k \in 1..Len(r.sampleNfts) : r.sampleNfts[k].tokenId = nfts[k].tokenId

\* C2: in getCollectionAnalytics (nft version), for every combination of
\* success and failure of the three sub-requests, a failed sub-request
\* leaves exactly its own fields at their initial value, the fields of the
\* sub-requests that succeeded are filled in from their answers, and the
\* response is the analytics object, never an error object
C2_PartialFailure ==
    Done("collection") =>
        /\ response.kind = "collectionAnalytics"
        /\ response.contractAddress = input.address
        /\ env.collection.status = "rejected" =>
              CollectionFieldsInitial(response)
        /\ (env.collection.status = "fulfilled"
              /\ env.collection.value.nfts # <<>>) =>
              CollectionFieldsFilled(response, env.collection.value.nfts)
        /\ (env.collection.status = "fulfilled"
              /\ env.collection.value.nfts = <<>>) =>
              CollectionFieldsInitial(response)
        /\ env.owners.status = "rejected" => response.ownerCount = Null
        /\ env.owners.status = "fulfilled" =>
              response.ownerCount = Some(Len(env.owners.value.owners))
        /\ env.floorPrice.status = "rejected" => response.floorPrice = Null
        /\ env.floorPrice.status = "fulfilled" =>
              /\ ~response.floorPrice.isNull
              /\ response.floorPrice.value.openSea.isNull <=>
                    (\/ ~env.floorPrice.value.openSea.present
                     \/ env.floorPrice.value.openSea.hasError)
              /\ response.floorPrice.value.looksRare.isNull <=>
                    (\/ ~env.floorPrice.value.looksRare.present
                     \/ env.floorPrice.value.looksRare.hasError)

C2_Witness ==
    /\ Done("collection")
    /\ env.collection.status = "rejected"
    /\ env.owners.status = "fulfilled"
    /\ env.floorPrice.status = "fulfilled"
    /\ response.ownerCount = Some(2)
    /\ response.name = Null

\* C3: in getCollectionAnalytics (nft version) the three sub-requests are
\* all sent before any of them is awaited, the response is produced only
\* after all three have settled, and the response content is the same for
\* every order in which they settle (a repeated request, whose sub-requests
\* settle in any other order, gets an equal response but for the timestamp)
C3_JoinAll ==
    tool = "collection" =>
        /\ pc = "allSettled" => calls = SubRequestCalls
        /\ pc = "done" =>
              /\ calls = SubRequestCalls
              /\ \A r \in SubRequests :
                    \E k \in 1..Len(co.settled) : co.settled[k] = r
        /\ (pc = "done" /\ run > 1) =>
              StripTimestamp(response) = StripTimestamp(prevResponse)

C3_Witness ==
    /\ Done("collection")
    /\ run = 2
    /\ co.settled = <<"getFloorPrice", "getNftsForContract",
                      "getOwnersForContract">>
    /\ co.previous = <<"getOwnersForContract", "getFloorPrice",
                       "getNftsForContract">>
    /\ env.owners.status = "rejected"
    /\ response.timestamp # prevResponse.timestamp

\* the creator owns several tokens and one read of one token rejects
SingleTokenReadFails ==
    /\ ~env.ownedFails
    /\ Len(env.tokens) >= 2
    /\ Cardinality(env.failing) = 1

\* C4 as claimed: in getShapeCreatorAnalytics (gasback version), when the
\* creator owns several tokens and a single per-token read fails, the tool
\* still returns the analytics object rather than an error object
C4_Original ==
    (Done("creator") /\ SingleTokenReadFails) =>
        response.kind = "creatorAnalytics"

\* C4 as amended: in getShapeCreatorAnalytics (gasback version), when the
\* creator owns several tokens and a single per-token read fails, the
\* failure aborts the aggregation: the handler does not throw and returns
\* the tagged error object in place of the analytics object
C4_TokenReadFailureIsErrorObject ==
    (Done("creator") /\ SingleTokenReadFails) =>
        /\ response # Exception
        /\ IsErrorObject(response)
        /\ response.message = CreatorErrorMessage
        /\ response.address = input.address

C4_Witness ==
    /\ Done("creator")
    /\ SingleTokenReadFails
    /\ Len(env.tokens) = 3
    /\ env.failing = {<<2, "getTokenGasbackBalance">>}
    /\ response.kind = "error"

\* every upstream read of the creator tool succeeds
AllCreatorReadsSucceed == ~env.ownedFails /\ env.failing = {}

\* the exact sum of a field of the answers for tokens 1..n
RECURSIVE ExactSum(_, _, _)
ExactSum(tokens, field, n) ==
    IF n = 0 THEN BigZero
    ELSE BigAdd(ExactSum(tokens, field, n - 1), tokens[n][field])

RECURSIVE ContractsSum(_, _)
ContractsSum(tokens, n) ==
    IF n = 0 THEN 0 ELSE ContractsSum(tokens, n - 1) + tokens[n].contracts

\* C5: in getShapeCreatorAnalytics (gasback version), when every upstream
\* read succeeds, totalTokens is the number of token ids getOwnedTokens
\* returned, the total earned in wei is the sum of getTokenTotalGasback over
\* those tokens, the current balance is the sum of getTokenGasbackBalance and
\* registeredContracts is the sum of the lengths of
\* getTokenRegisteredContracts
C5_TotalsAreSums ==
    (Done("creator") /\ AllCreatorReadsSucceed) =>
        /\ response.totalTokens = Len(env.tokens)
        /\ cr.totals.totalGasbackEarned =
              ExactSum(env.tokens, "total", Len(env.tokens))
        /\ cr.totals.totalCurrentBalance =
              ExactSum(env.tokens, "balance", Len(env.tokens))
        /\ response.registeredContracts =
              ContractsSum(env.tokens, Len(env.tokens))

\* --- getTopShapeCreators, stated from the upstream state alone ---

\* the multicall batch (numbered from 1) that holds call number k (from 1)
BatchOf(k) == ((k - 1) \div 100) + 1

\* ownerOf(t) succeeded: the call did not revert and its batch did not throw
OwnerObtained(t) ==
    /\ t \notin env.ownerFailing
    /\ BatchOf(t) \notin env.ownerBatchThrows

ObtainedTokens == { t \in 1..env.supply : OwnerObtained(t) }

\* the owner ownerOf(t) answers
OwnerOfToken(t) == ((t - 1) % env.ownerMod) + 1

\* the three analytics calls for t are sent as calls number 3r - 2, 3r - 1
\* and 3r, where t is the r-th token whose owner was obtained; all three
\* succeeded: none reverted and none was in a batch that threw
AnalyticsSucceeded(t) ==
    LET r == Cardinality({ u \in ObtainedTokens : u <= t })
    IN  /\ \A f \in TokenReads : <<t, f>> \notin env.readFailing
        /\ \A k \in (3 * r - 2)..(3 * r) : BatchOf(k) \notin env.readBatchThrows

\* the tokens the claim counts for an owner
CountedTokens(owner) ==
    { t \in ObtainedTokens : OwnerOfToken(t) = owner /\ AnalyticsSucceeded(t) }

\* the exact sum of a wei field of the gasback contract over tokens lo..hi
\* of a set
RECURSIVE WeiSum(_, _, _, _)
WeiSum(tokens, field, lo, hi) ==
    IF lo > hi THEN BigZero
    ELSE IF lo = hi
    THEN IF lo \in tokens THEN TopProfileOf(lo)[field] ELSE BigZero
    ELSE LET mid == (lo + hi) \div 2
         IN  BigAdd(WeiSum(tokens, field, lo, mid),
                    WeiSum(tokens, field, mid + 1, hi))

RECURSIVE ContractsOver(_, _, _)
ContractsOver(tokens, lo, hi) ==
    IF lo > hi THEN 0
    ELSE IF lo = hi
    THEN IF lo \in tokens THEN TopProfileOf(lo).contracts ELSE 0
    ELSE LET mid == (lo + hi) \div 2
         IN  ContractsOver(tokens, lo, mid) + ContractsOver(tokens, mid + 1, hi)

\* the handler has aggregated the creators and returned them
TopAggregated ==
    /\ Done("top")
    /\ response.kind = "topCreators"
    /\ ObtainedTokens # {}

\* C6: in getTopShapeCreators (multicall version), for every owner in the
\* aggregation, totalTokens is the number of token ids t in 1..totalSupply
\* for which ownerOf(t) succeeded with that owner and all three analytics
\* calls for t succeeded, and the total earned wei, the current balance wei
\* and registeredContracts are the sums over exactly those tokens
C6_PerOwnerSums ==
    TopAggregated =>
        \A k \in 1..Len(tp.creatorStats) :
            LET stats == tp.creatorStats[k]
                counted == CountedTokens(stats.address)
            IN  /\ stats.totalTokens = Cardinality(counted)
                /\ stats.totalEarnedWei = WeiSum(counted, "total", 1, env.supply)
                /\ stats.currentBalanceWei =
                      WeiSum(counted, "balance", 1, env.supply)
                /\ stats.registeredContracts =
                      ContractsOver(counted, 1, env.supply)

C6_Witness ==
    /\ TopAggregated
    /\ env.supply > 100
    /\ env.ownerMod = 2
    /\ env.readFailing = {<<2, "getTokenRegisteredContracts">>}
    /\ env.readBatchThrows = {2}
    /\ Len(tp.creatorStats) = 2
    /\ tp.creatorStats[1].totalTokens > 1
    /\ tp.creatorStats[2].totalTokens > 1

\* the owners that have a token the aggregation counts
AggregatedOwners ==
    { OwnerOfToken(t) : t \in { u \in ObtainedTokens : AnalyticsSucceeded(u) } }

\* the total earned the output shows for the creator at position k of the
\* aggregation
EarnedShown(k) == ToFixed6(ToNumber(tp.creatorStats[k].totalEarnedWei))

\* C7: in getTopShapeCreators (multicall version), topCreators has exactly
\* min(25, totalCreatorsAnalyzed) entries, totalCreatorsAnalyzed is the
\* number of distinct owners aggregated, the entries are in non-increasing
\* order of their total earned (totalEarnedETH), and no creator left out of
\* topCreators has a total earned strictly above that of a creator in it
C7_TopTwentyFive ==
    (Done("top") /\ response.kind = "topCreators") =>
        LET top == response.topCreators
            inTop == { top[k].address : k \in 1..Len(top) }
        IN  /\ response.totalCreatorsAnalyzed = Cardinality(AggregatedOwners)
            /\ Len(top) = (IF response.totalCreatorsAnalyzed < 25
                           THEN response.totalCreatorsAnalyzed ELSE 25)
            /\ Cardinality(inTop) = Len(top)
            /\ inTop \subseteq AggregatedOwners
            /\ \A k \in 1..(Len(top) - 1) :
                  top[k].totalEarnedETH >= top[k + 1].totalEarnedETH
            /\ ObtainedTokens # {} =>
                  \A j \in 1..Len(tp.creatorStats) :
                      tp.creatorStats[j].address \notin inTop =>
                          \A k \in 1..Len(top) :
                              EarnedShown(j) <= top[k].totalEarnedETH

C7_Witness ==
    /\ TopAggregated
    /\ response.totalCreatorsAnalyzed = 26
    /\ Len(response.topCreators) = 25
    /\ response.topCreators[1].totalEarnedETH
          > response.topCreators[25].totalEarnedETH

\* the multicall requests of a kind the invocation sent
BatchesSent(kind) ==
    { k \in 1..Len(calls) : calls[k].fn = "multicall" /\ calls[k].arg = kind }

\* ceil(n / 100)
CeilDiv100(n) == (n + 99) \div 100

\* C8: no retries: one invocation of getTopShapeCreators (multicall version)
\* sends every multicall batch exactly once, also when it throws; with N =
\* totalSupply and K = the number of tokens whose owner was obtained, it
\* sends exactly ceil(N / 100) owner batches and, when K > 0, exactly
\* ceil(3K / 100) analytics batches
C8_EveryBatchSentOnce ==
    (Done("top") /\ ~env.supplyFails) =>
        /\ Cardinality(BatchesSent("owner")) = CeilDiv100(env.supply)
        /\ Cardinality(ObtainedTokens) > 0 =>
              Cardinality(BatchesSent("analytics")) =
                  CeilDiv100(3 * Cardinality(ObtainedTokens))
        /\ \A j, k \in BatchesSent("owner") \cup BatchesSent("analytics") :
              j # k => calls[j] # calls[k]

C8_Witness ==
    /\ Done("top")
    /\ env.supply > 100
    /\ env.ownerBatchThrows = {2}
    /\ env.readBatchThrows = {1}
    /\ Cardinality(BatchesSent("owner")) = 2
    /\ Cardinality(BatchesSent("analytics")) = 3

\* C9: idempotence of the uncached tools: two invocations of
\* getShapeCreatorAnalytics (gasback version) or of getTopShapeCreators
\* (multicall version) with the same input, against an upstream that answers
\* every read the same way, return responses equal in every field except
\* the timestamp, and no step of an invocation changes the upstream state or
\* the cache store, the only state another invocation can observe
C9_Idempotent ==
    /\ []((tool \in {"creator", "top"} /\ pc = "done" /\ run > 1) =>
            StripTimestamp(response) = StripTimestamp(prevResponse))
    /\ [][(tool \in {"creator", "top"}) => (env' = env /\ cache' = cache)]_vars

C9_Witness ==
    /\ Done("creator")
    /\ run = 2
    /\ response.kind = "creatorAnalytics"
    /\ response.totalTokens = 2
    /\ response.totalEarnedETH > 0
    /\ response.timestamp # prevResponse.timestamp

\* the sub-requests and the cache write among the requests sent so far
UpstreamOrWrite(sent) ==
    { k \in 1..Len(sent) :
        sent[k].fn \in SubRequests \cup {"setCached"} }

\* C10: in getCollectionAnalytics (cached version), when the cache lookup
\* for the request's key returns a value, the handler returns the stored
\* response unchanged, sends none of the three upstream requests and does
\* not write to the cache; upstream requests are sent only after a miss
C10_HitReturnsStored ==
    [][tool = "cached" =>
        LET key == CacheKey(env.chainId, input.address)
            lookup == GetCached(env, cache, key)
            hit == pc = "getCached" /\ ~env.getThrows /\ ~lookup.isNull
            miss == pc = "getCached" /\ ~env.getThrows /\ lookup.isNull
        IN  /\ hit => /\ UpstreamOrWrite(calls) = {}
                      /\ pc' = "done"
                      /\ Stringify(response') = cache[key].value
                      /\ calls' = calls
                      /\ cache' = cache
            /\ (\E k \in 1..Len(calls') :
                   /\ calls'[k].fn \in SubRequests
                   /\ k > Len(calls)) => miss
    ]_vars

C10_Witness ==
    /\ Done("cached")
    /\ run = 2
    /\ response.kind = "collectionAnalytics"
    /\ response = prevResponse
    /\ response.timestamp = 1
    /\ clock = 2
    /\ calls = <<[fn |-> "getCached",
                  arg |-> CacheKey(env.chainId, input.address)]>>
    /\ cache[CacheKey(env.chainId, input.address)].value = Stringify(response)

\* two spellings of one address: equal, or different only in letter case
DifferOnlyInCase(a, b) == a = b \/ {a, b} = {"0xAB", "0xab"}

\* C11: in getCollectionAnalytics (cached version) the cache key is a
\* function of the chain id and the lower-cased contract address only: two
\* keys are equal exactly when the chain ids are equal and the addresses
\* differ at most in letter case; every lookup and every write of a request
\* uses the key of the deployment's chain id and the request's address and
\* touches no other entry; a repeated request whose address differs from
\* the first one's only in letter case gets the entry the first one wrote,
\* and a request for another address does not
C11_KeyOfChainAndAddress ==
    /\ [](\A c1, c2 \in ChainIds : \A a1, a2 \in CachedAddresses :
             (CacheKey(c1, a1) = CacheKey(c2, a2))
                 <=> (c1 = c2 /\ DifferOnlyInCase(a1, a2)))
    /\ []((/\ Done("cached") /\ run = 2
           /\ prevResponse.kind = "collectionAnalytics"
           /\ response.kind = "collectionAnalytics"
           /\ env.redis) =>
            (DifferOnlyInCase(prevResponse.contractAddress, input.address)
                <=> response = prevResponse))
    /\ [][tool = "cached" =>
            /\ \A k \in 1..Len(calls') :
                  (k > Len(calls) \/ calls' # calls) =>
                      (calls'[k].fn \in {"getCached", "setCached"} =>
                          calls'[k].arg
                              = CacheKey(env.chainId, input'.address))
            /\ \A k \in CacheKeys :
                  cache'[k] # cache[k] =>
                      /\ k.chainId = env.chainId
                      /\ DifferOnlyInCase(k.address,
                                          ToLowerCase(input.address))
       ]_vars

C11_Witness ==
    /\ Done("cached")
    /\ run = 2
    /\ input.address = "0xab"
    /\ prevResponse.kind = "collectionAnalytics"
    /\ prevResponse.contractAddress = "0xAB"
    /\ response = prevResponse
    /\ cache[CacheKey(env.chainId, "0xAB")].value = Stringify(prevResponse)

\* C12: in getCollectionAnalytics (cached version) no failure is
\* exceptional: whether the cache lookup throws, any of the three upstream
\* requests fails or the cache write throws, the handler returns a normal
\* response body (the analytics object or the tagged error object) and no
\* exception leaves it
C12_NoExceptionEscapes ==
    Done("cached") => response.kind \in {"collectionAnalytics", "error"}

\* C13: in production the middleware calls next() for a request only in
\* the step in which the limiter admits it, the requests of one IP admitted
\* in one window of the limiter never exceed 100, and a request the limiter
\* refuses is answered 429 and never reaches next()
C13_AdmittedBeforeNext ==
    /\ []((tool = "middleware" /\ env.nodeEnv = "production") =>
            /\ \A ip \in IPs : mw.admitted[ip] <= 100
            /\ \A s \in Slots :
                  /\ mw.reqs[s].state \in {"limiter", "rejected", "refused"}
                        => mw.reqs[s].nextCalls = 0
                  /\ mw.reqs[s].state = "refused"
                        => mw.reqs[s].statusCode = 429)
    /\ [][(tool = "middleware" /\ env.nodeEnv = "production") =>
            \A s \in Slots :
               /\ (mw'.reqs[s].state # "free" /\ mw'.reqs[s].nextCalls >
                      (IF mw.reqs[s].state = "free" THEN 0
                       ELSE mw.reqs[s].nextCalls)) =>
                     /\ mw.reqs[s].state = "limiter"
                     /\ mw'.reqs[s].nextCalls = 1
                     /\ mw'.hits[mw.reqs[s].ip] = mw.hits[mw.reqs[s].ip] + 1
                     /\ mw'.hits[mw.reqs[s].ip] <= 100
                     /\ mw'.admitted[mw.reqs[s].ip]
                           = mw.admitted[mw.reqs[s].ip] + 1
               /\ mw.reqs[s].state = "refused" =>
                     mw'.reqs[s].state \in {"refused", "free"}
       ]_vars

C13_Witness ==
    /\ tool = "middleware"
    /\ env.nodeEnv = "production"
    /\ mw.hits["busy"] = 101
    /\ mw.admitted["busy"] = 100
    /\ mw.reqs[1] = Request("busy", "refused", 0, 429)
    /\ mw.reqs[2] = Request("busy", "resolved", 1, 200)

\* the requests of the current invocation sent to fn
CallsTo(fn) == { k \in 1..Len(calls) : calls[k].fn = fn }

\* C14: in getStackAchievements (ENS version), when userAddress is a valid
\* address no name lookup is made; otherwise the name is looked up once, on
\* mainnet; and when the lookup answers no address the handler returns the
\* tagged error object (error = true, a message naming the unresolved name,
\* userAddress, timestamp) without any read on the Stack contract
C14_UnresolvedNameIsErrorObject ==
    (tool = "stackEns" /\ pc # "idle") =>
        /\ input.address \in Addresses => CallsTo("getEnsAddress") = {}
        /\ input.address \in Names =>
              /\ Cardinality(CallsTo("getEnsAddress")) = 1
              /\ \A k \in CallsTo("getEnsAddress") :
                    /\ calls[k].client = "mainnet"
                    /\ calls[k].arg = input.address
        /\ (/\ input.address \in Names
            /\ ~env.ensFails
            /\ env.ens[input.address] = Null
            /\ pc # "getEnsAddress") =>
              /\ pc = "done"
              /\ response.kind = "error"
              /\ response.error = TRUE
              /\ response.message.text = "Unable to resolve ENS name"
              /\ response.message.name = input.address
              /\ response.address = input.address
              /\ response.timestamp = clock
              /\ CallsTo("addressToTokenId") = {}
              /\ CallsTo("getStackMedals") = {}

C14_Witness ==
    /\ Done("stackEns")
    /\ input.address = "nobody.eth"
    /\ env.ens["nobody.eth"] = Null
    /\ env.ens["alice.eth"] # Null
    /\ ~env.ensFails
    /\ response.kind = "error"
    /\ response.message.name = "nobody.eth"
    /\ Len(calls) = 1

\* C15: every amount in the output of getShapeCreatorAnalytics (gasback
\* version) is non-negative whenever the per-token values the contract
\* answers are non-negative: total earned, current balance and total
\* withdrawn (summed earned minus summed balance) are all >= 0
C15_AmountsNonNegative ==
    (Done("creator") /\ response.kind = "creatorAnalytics") =>
        /\ response.totalEarnedETH >= 0
        /\ response.currentBalanceETH >= 0
        /\ ~(response.totalWithdrawnETH.neg
             /\ response.totalWithdrawnETH.micro > 0)

\* the medals of the Stack whose tier is in tiers
MedalsOfTier(tiers) ==
    Cardinality({ k \in 1..Len(env.medals) :
                    env.medals[k].medalTier \in tiers })

\* C16: in every non-error response of getStackAchievements (both
\* versions) bronze + silver + gold + special of medalsByTier equals
\* totalMedals, and each medal is counted in exactly one tier: tier 1 in
\* bronze, 2 in silver, 3 in gold and any other value in special
C16_TiersSumToTotal ==
    (/\ tool \in {"stack", "stackEns"}
     /\ pc = "done"
     /\ response.kind = "stackAchievements") =>
        LET byTier == response.medalsByTier
        IN  /\ byTier.bronze + byTier.silver + byTier.gold + byTier.special
                  = response.totalMedals
            /\ response.hasStack =>
                  /\ response.totalMedals = Len(env.medals)
                  /\ byTier.bronze = MedalsOfTier({1})
                  /\ byTier.silver = MedalsOfTier({2})
                  /\ byTier.gold = MedalsOfTier({3})
                  /\ byTier.special = MedalsOfTier({0, 4})
            /\ ~response.hasStack => response.totalMedals = 0

C16_Witness ==
    /\ Done("stackEns")
    /\ input.address = "alice.eth"
    /\ response.kind = "stackAchievements"
    /\ response.totalMedals = 2
    /\ response.medalsByTier.special = 1
    /\ response.medalsByTier.gold = 1
    /\ env.medals[1].medalTier = 0

\* the owners of the tokens the loop of the limit version aggregates: the
\* tokens whose ownerOf and three reads all succeed
LimitCreators ==
    { ((t - 1) % env.ownerMod) + 1 :
        t \in { u \in 1..env.supply :
                  /\ u \notin env.ownerFailing
                  /\ \A f \in TokenReads : <<u, f>> \notin env.readFailing } }

\* the limit of the request clamped into 1..100 (default 50), as twice its
\* value
ClampedLimit ==
    LET l == IF input.limit.defined THEN input.limit.value ELSE 100
    IN  IF l < 2 THEN 2 ELSE IF l > 200 THEN 200 ELSE l

\* C17 as stated: the number of creators returned equals min(L, number of
\* distinct creators aggregated), L being the limit clamped into 1..100
C17_Original ==
    (Done("topLimit") /\ response.kind = "topCreators") =>
        2 * Len(response.topCreators)
            = Min(ClampedLimit, 2 * Cardinality(LimitCreators))

\* C17: in getTopShapeCreators (version with a limit parameter) the number
\* of creators returned equals min(floor(L), number of distinct creators
\* aggregated), L being the limit clamped into 1..100 (default 50): never
\* more than 100 and, when at least one creator exists, never fewer than 1
C17_ReturnedAtMostLimit ==
    (Done("topLimit") /\ response.kind = "topCreators") =>
        /\ response.totalCreatorsAnalyzed = Cardinality(LimitCreators)
        /\ Len(response.topCreators)
              = Min(ClampedLimit \div 2, Cardinality(LimitCreators))
        /\ Len(response.topCreators) <= 100
        /\ Cardinality(LimitCreators) >= 1 => Len(response.topCreators) >= 1

C17_Witness ==
    /\ Done("topLimit")
    /\ input.limit = [defined |-> TRUE, value |-> 5]
    /\ response.kind = "topCreators"
    /\ response.totalCreatorsAnalyzed = env.supply - 1
    /\ env.supply > 100
    /\ Len(response.topCreators) = 2

\* the owner batches have all settled in the current invocation
OwnersRead ==
    /\ tool = "top"
    /\ pc \in {"analyticsBatch", "done"}
    /\ response.kind # "error"
    /\ "ownerResults" \in DOMAIN tp
    /\ env.supply > 0

\* C18: in getTopShapeCreators (multicall version), for every pattern of
\* reverting calls and throwing batches, the owner result at position i
\* (from 0) is the result of ownerOf for token id i + 1: when a whole owner
\* batch throws exactly the token ids of that batch have no owner, and the
\* token ids of the other batches keep their own ownerOf result
C18_OwnerResultsAligned ==
    OwnersRead =>
        /\ Len(tp.ownerResults) = env.supply
        /\ \A t \in 1..env.supply :
              tp.ownerResults[t] =
                  IF BatchOf(t) \in env.ownerBatchThrows THEN Failure
                  ELSE IF t \in env.ownerFailing THEN Failure
                  ELSE Success(OwnerOfToken(t))
        /\ { tp.tokenOwners[k] : k \in 1..Len(tp.tokenOwners) }
              = { [tokenId |-> t, owner |-> OwnerOfToken(t)] :
                    t \in ObtainedTokens }
        /\ Len(tp.tokenOwners) = Cardinality(ObtainedTokens)

C18_Witness ==
    /\ OwnersRead
    /\ pc = "done"
    /\ env.supply > 100
    /\ env.ownerBatchThrows = {1}
    /\ env.ownerFailing = {}
    /\ env.ownerMod = 2
    /\ Len(tp.tokenOwners) = env.supply - 100
    /\ tp.tokenOwners[1] = [tokenId |-> 101, owner |-> 1]
    /\ response.totalCreatorsAnalyzed >= 1

\* the rank of token t among the tokens whose owner was obtained
RankOf(t) == Cardinality({ u \in ObtainedTokens : u <= t })

\* one element per token counted in the entries of a creatorStats map
TokensIn(stats) ==
    UNION { { <<k, j>> : j \in 1..stats[k].totalTokens } :
              k \in 1..Len(stats) }

\* C19: in getTopShapeCreators (multicall version), for every pattern of
\* reverting calls and throwing batches, the three analytics results read
\* for a token are the results of the three calls made for that token id,
\* also when the three calls fall into two batches of which one throws;
\* every token id in 1..totalSupply is added to at most one creator and at
\* most once, so the totalTokens of all creators sum to at most totalSupply
C19_AnalyticsResultsAligned ==
    TopAggregated =>
        /\ Len(tp.analyticsResults) = 3 * Cardinality(ObtainedTokens)
        /\ \A t \in ObtainedTokens : \A f \in 1..3 :
              LET k == 3 * (RankOf(t) - 1) + f
                  call == [fn |-> AnalyticsFunctions[f], arg |-> t]
              IN  /\ tp.tokenOwners[RankOf(t)].tokenId = t
                  /\ tp.analyticsCalls[k] = call
                  /\ tp.analyticsResults[k] =
                        IF BatchOf(k) \in env.readBatchThrows THEN Failure
                        ELSE CallResult(env, call)
        /\ \A k \in 1..Len(tp.creatorStats) :
              tp.creatorStats[k].totalTokens
                  = Cardinality(CountedTokens(tp.creatorStats[k].address))
        /\ \A j, k \in 1..Len(tp.creatorStats) :
              j # k => tp.creatorStats[j].address # tp.creatorStats[k].address
        /\ Cardinality(TokensIn(tp.creatorStats))
              = Cardinality({ t \in ObtainedTokens : AnalyticsSucceeded(t) })
        /\ Cardinality(TokensIn(tp.creatorStats)) <= env.supply

C19_Witness ==
    /\ TopAggregated
    /\ env.supply > 100
    /\ env.ownerFailing = {}
    /\ env.ownerBatchThrows = {}
    /\ env.readBatchThrows = {2}
    /\ tp.analyticsCalls[100].arg = 34
    /\ tp.analyticsCalls[101].arg = 34
    /\ tp.analyticsResults[100].status = "success"
    /\ tp.analyticsResults[101].status = "failure"
    /\ Cardinality(TokensIn(tp.creatorStats)) = env.supply - 34

\* C20: in getTopShapeCreators (multicall version), when totalSupply is 0 or
\* when no ownerOf call succeeds, the handler returns a non-error response
\* with totalCreatorsAnalyzed = 0 and topCreators = [] and sends no
\* analytics multicall (and, for a supply of 0, no owner multicall either)
C20_NothingToAnalyze ==
    (Done("top") /\ ~env.supplyFails /\ ObtainedTokens = {}) =>
        /\ response.kind = "topCreators"
        /\ response.totalCreatorsAnalyzed = 0
        /\ response.topCreators = <<>>
        /\ response.timestamp = clock
        /\ BatchesSent("analytics") = {}
        /\ env.supply = 0 => BatchesSent("owner") = {}

C20_Witness ==
    /\ Done("top")
    /\ env.supply > 100
    /\ env.ownerFailing = 1..MaxSupply + 1
    /\ env.ownerBatchThrows = {2}
    /\ response.kind = "topCreators"
    /\ response.totalCreatorsAnalyzed = 0
    /\ Cardinality(BatchesSent("owner")) = 2
    /\ Len(calls) = 3

C22_NotLimitedOutsideProduction ==
    /\ []((tool = "middleware" /\ env.nodeEnv # "production") =>
            /\ mw.hits = [ip \in IPs |-> 0]
            /\ mw.admitted = [ip \in IPs |-> 0]
            /\ \A s \in Slots :
                  mw.reqs[s].state # "free" =>
                      /\ mw.reqs[s].state = "resolved"
                      /\ mw.reqs[s].nextCalls = 1
                      /\ mw.reqs[s].statusCode # 429)
    /\ [][(tool = "middleware" /\ env.nodeEnv # "production") =>
            /\ mw'.hits = mw.hits
            /\ \A s \in Slots :
                  (mw.reqs[s].state # "free" /\ mw'.reqs[s].state # "free")
                      => mw'.reqs[s] = mw.reqs[s]
       ]_vars

C22_Witness ==
    /\ tool = "middleware"
    /\ env.nodeEnv = "development"
    /\ mw.reqs[1] = Request("busy", "resolved", 1, 200)
    /\ mw.reqs[2] = Request("quiet", "resolved", 1, 200)
    /\ mw.hits["busy"] = 0
    /\ mw.hits["quiet"] = 0

\* C23: in production the promise the middleware returns for a request
\* settles sooner or later (it is resolved or rejected), also for a request
\* the limiter refuses because its IP is over the limit
C23_PromiseSettles ==
    \A s \in Slots :
        (tool = "middleware" /\ mw.reqs[s].state = "limiter")
            ~> (mw.reqs[s].state \in {"resolved", "rejected"})

\* the reads of the three blocks before the latest that succeed
RecentSucceeded == (1..3) \ env.recentFails

\* C24: whichever reads of getChainStatus succeed and fail, the response is
\* the status object and never an error object; its rpcHealthy is true
\* exactly when the read of the latest block succeeded, its gasPrice is
\* there exactly when getGasPrice succeeded, whatever became of the latest
\* block, and its avgBlockTime is there only if the latest block and at
\* least two of the three blocks before it were read
C24_StatusFollowsSubRequests ==
    Done("chainStatus") =>
        /\ ~IsErrorObject(response)
        /\ response.kind = "chainStatus"
        /\ response.rpcHealthy = ~env.latestFails
        /\ response.gasPrice.isNull = env.gasPriceFails
        /\ ~response.avgBlockTime.isNull =>
              /\ ~env.latestFails
              /\ Cardinality(RecentSucceeded) >= 2

\* the latest block could not be read and the gas price could: the response
\* is unhealthy, without block time, and shows the gas price
C24_Witness ==
    /\ Done("chainStatus")
    /\ env.latestFails
    /\ ~env.gasPriceFails
    /\ env.blockNumberFails
    /\ env.gasPrice = 1234567
    /\ ~response.rpcHealthy
    /\ response.avgBlockTime.isNull
    /\ ~response.gasPrice.isNull
    /\ response.gasPrice.value.gwei.integer = <<0>>

====
